---- MODULE Spec2Model ----
(***************************************************************************)
(* Match evaluation and reporting engine of kortkat-pipeline               *)
(* (src/generate_match_report.py), as a state machine over the report run, *)
(* and the step runner of the pipeline (src/run_pipeline.py).              *)
(*                                                                         *)
(* Tables (pandas DataFrames) are sequences of records, in row order.      *)
(* Text values that the code parses or compares character by character     *)
(* (matched_ID, libris_ID) are sequences of one-character strings.         *)
(* A missing cell (NaN) of a text column is NaN; a missing similarity is   *)
(* the empty sequence and a present one is <<v>>, v in hundredths.         *)
(* Python's None for a DataFrame is NoneDF.                                *)
(***************************************************************************)
EXTENDS Integers, Sequences, FiniteSets, TLC

VARIABLES
    pc,                             \* position in __main__ / evaluate_matches
    match_results_path,             \* the matches file: suffix, readable, content
    ground_truth_path,              \* the ground-truth file
    matchresults_df,                \* load_data's first result (NoneDF or a table)
    gt_df,                          \* load_data's second result
    merged_df,                      \* load_data's third result: joined working table
    evaluated_card_types,           \* evaluate_extracted_card_types' result
    evaluated_extracted_occurences, \* evaluate_extracted_occurences' result
    matches_df,                     \* working table with the match_result column
    results_df,                     \* one Outcome record per match group
    raised,                         \* the exception that ended the run, or NoError
    printed,                        \* console messages, in order
    scores_pdf,                     \* the chart document: NoFile or its pages
    evaluated_card_completeness,    \* evaluate_card_completeness' result
    report_xlsx,                    \* the spreadsheet: NoFile or its sheets
    args,                           \* the parsed command line
    files,                          \* the regular files that exist
    paths,                          \* resolve_paths' result, or NoPaths
    call_id_string,                 \* argument of a call of parse_gt_id_string
    call_id_list,                   \* its return value, or NoList
    MATCH_WORKING_DIR,              \* run_pipeline.py: os.getenv("MATCH_WORKING_DIR")
    selected_steps,                 \* the keys of the steps to run
    step_index,                     \* position of run_pipeline's loop, from 1
    pipeline_pc,                    \* position of run_pipeline
    run_result,                     \* run_pipeline's local `result`, or Unbound
    executed,                       \* keys of the steps whose command was started
    completed,                      \* the commands that returned: key, returncode
    reported,                       \* keys of the steps printed as succeeded
    failure,                        \* the exception that ended run_pipeline
    exit_code                       \* exit status of the orchestrator, or NoExit

vars == <<pc, match_results_path, ground_truth_path, matchresults_df, gt_df,
          merged_df, evaluated_card_types, evaluated_extracted_occurences,
          matches_df, results_df, raised, printed, scores_pdf,
          evaluated_card_completeness, report_xlsx, args, files, paths,
          call_id_string, call_id_list, MATCH_WORKING_DIR, selected_steps,
          step_index, pipeline_pc, run_result, executed, completed, reported,
          failure, exit_code>>

\* What the stages after the classifier write.
reportVars == <<scores_pdf, evaluated_card_completeness, report_xlsx>>

\* The command line and its resolution.
cliVars == <<args, files, paths>>

\* One call of parse_gt_id_string.
parseVars == <<call_id_string, call_id_list>>

\* The run of run_pipeline.py.
pipelineVars == <<MATCH_WORKING_DIR, selected_steps, step_index, pipeline_pc, run_result,
                  executed, completed, reported, failure, exit_code>>

\* The report run up to the classifier.
runVars == <<pc, match_results_path, ground_truth_path, matchresults_df, gt_df,
             merged_df, evaluated_card_types, evaluated_extracted_occurences,
             matches_df, results_df, raised, printed>>

----------------------------------------------------------------------------
(* Bounds of the model *)

MaxRows == 3        \* rows of a working table drawn for the classifier
MaxMatchRows == 2   \* rows of a match-results file
MaxGtRows == 2      \* rows of a ground-truth file

MaxLen == 5         \* characters of an argument of parse_gt_id_string

MaxExtra == 1       \* candidate rows added to the table that fills every histogram

----------------------------------------------------------------------------
(* Values *)

NaN == <<"NaN">>      \* missing cell of a column of character sequences
NaNSim == <<>>        \* missing similarity
NA == "<NA>"          \* missing cell of a column of plain strings
NoCount == <<>>       \* correct_count = None
NoneDF == [none |-> TRUE]
NoError == [error |-> "none"]
NoFile == [written |-> FALSE]
NoPath == "<no path>"

\* A console line or an exception's message: its fixed text and the path
\* interpolated into it (the variable the path is read from), or NoPath.
Message(text, path) == [text |-> text, path |-> path]

\* An exception of type `error` that leaves the function `where`.
Raise(error, where) == [error |-> error, where |-> where]

DF(rows) == [none |-> FALSE, rows |-> rows]

IsNone(df) == df.none

IsEmpty(df) == df.rows = <<>>

RefCard == "Hanvisning"     \* the reference-card marker of card_type

\* Lexicographic order of the identifiers the model uses (groupby and outer
\* merge sort their keys).
IdOrder == <<"c1", "c2", "c3", "m1", "m2", "m3", "m4", "m5", "m6", "m7", "m8", "m9",
            "x1">>

Rank(id) == CHOOSE i \in DOMAIN IdOrder : IdOrder[i] = id

\* The elements of the set S of identifiers as a sequence in ascending order.
RECURSIVE SortedIds(_)
SortedIds(S) ==
    IF S = {} THEN <<>>
    ELSE LET lo == CHOOSE x \in S : \A y \in S : Rank(x) <= Rank(y)
         IN  <<lo>> \o SortedIds(S \ {lo})

\* All sequences over S of length lo..hi.
SeqsUpTo(S, lo, hi) == UNION {[1..n -> S] : n \in lo..hi}

\* The rows of t that belong to card c.
RowsOfCard(t, c) == {i \in DOMAIN t : t[i].card_ID = c}

----------------------------------------------------------------------------
(* parse_args, resolve_paths *)

\* A pathlib.Path: absolute or relative, and its segments; None for an option
\* that was not given.
NonePath == [none |-> TRUE]

Path(abs, parts) == [none |-> FALSE, abs |-> abs, parts |-> parts]

Cwd == <<"work">>     \* the working directory

\* Path.resolve(): the absolute path
Resolve(p) == IF p.abs THEN p ELSE Path(TRUE, Cwd \o p.parts)

\* dir / name
Join(dir, name) == Path(dir.abs, dir.parts \o <<name>>)

\* Path.is_file()
IsFile(p, fs) == Resolve(p).parts \in fs.regular

\* The attributes of the Namespace that parse_args returns: one per
\* add_argument call, named after its option.
Namespace(match_directory, matches_file, settings_file) ==
    [match_directory   |-> match_directory,
     matches_file      |-> matches_file,
     settings_file     |-> settings_file,
     ground_truth_file |-> Path(FALSE, <<"gt.xlsx">>),
     output_directory  |-> Path(FALSE, <<"out">>)]

\* getattr on an attribute the Namespace does not have raises AttributeError.
HasAttr(ns, name) == name \in DOMAIN ns

\* `not args.x` for an attribute that exists: None is falsy, a Path is truthy.
Falsy(v) == v.none

NoPaths == [resolved |-> FALSE]

\* The branch without --match_directory reads args.matches and args.settings.
ExplicitFormRaises(ns) ==
    IF ~HasAttr(ns, "matches") THEN "AttributeError"
    ELSE IF Falsy(ns.matches) THEN "ValueError"
    ELSE IF ~HasAttr(ns, "settings") THEN "AttributeError"
    ELSE IF Falsy(ns.settings) THEN "ValueError"
    ELSE "none"

matches_path_of(ns) ==
    IF ~Falsy(ns.match_directory)
    THEN IF ~Falsy(ns.matches_file) THEN ns.matches_file
         ELSE Join(Resolve(ns.match_directory), "outputfile.xlsx")
    ELSE Resolve(ns.matches_file)

settings_path_of(ns) ==
    IF ~Falsy(ns.match_directory)
    THEN IF ~Falsy(ns.settings_file) THEN ns.settings_file
         ELSE Join(Resolve(ns.match_directory), "outputfile-report.json")
    ELSE Resolve(ns.settings_file)

\* The input files of the existence check that are no regular file.
Missing(ns, fs) ==
    {p \in {matches_path_of(ns), settings_path_of(ns), Resolve(ns.ground_truth_file)} :
        ~IsFile(p, fs)}

\* The directory and its parents (mkdir(parents=True, exist_ok=True)).
Ancestors(parts) == {SubSeq(parts, 1, n) : n \in 1..Len(parts)}

ResolvePaths ==
    /\ pc = "resolve_paths"
    /\ IF Falsy(args.match_directory) /\ ExplicitFormRaises(args) # "none"
       THEN /\ raised' = Raise(ExplicitFormRaises(args), "resolve_paths")
            /\ pc' = "raised"
            /\ UNCHANGED <<files, paths>>
       ELSE IF Missing(args, files) # {}
       THEN /\ raised' = Raise("FileNotFoundError", "resolve_paths")
            /\ pc' = "raised"
            /\ UNCHANGED <<files, paths>>
       ELSE IF Ancestors(Resolve(args.output_directory).parts) \cap files.regular # {}
       THEN /\ raised' = Raise("FileExistsError", "resolve_paths")
            /\ pc' = "raised"
            /\ UNCHANGED <<files, paths>>
       ELSE /\ files' = [files EXCEPT !.dirs =
                            @ \cup Ancestors(Resolve(args.output_directory).parts)]
            /\ paths' = [resolved          |-> TRUE,
                         matches_path      |-> matches_path_of(args),
                         settings_path     |-> settings_path_of(args),
                         ground_truth_path |-> Resolve(args.ground_truth_file),
                         output_dir        |-> Resolve(args.output_directory)]
            /\ pc' = "load_data"
            /\ UNCHANGED raised
    /\ UNCHANGED <<match_results_path, ground_truth_path, matchresults_df, gt_df,
                   merged_df, evaluated_card_types, evaluated_extracted_occurences,
                   matches_df, results_df, printed, args>>
    /\ UNCHANGED <<reportVars, parseVars, pipelineVars>>

\* A run whose command line is not part of the model: the match-directory
\* form, already resolved.
NoCommandLine ==
    /\ args = Namespace(Path(FALSE, <<"run">>), NonePath, NonePath)
    /\ files = [regular |-> {<<"work", "run", "outputfile.xlsx">>,
                             <<"work", "run", "outputfile-report.json">>,
                             <<"work", "gt.xlsx">>},
                dirs |-> {<<"work">>, <<"work", "run">>, <<"work", "out">>}]
    /\ paths = [resolved          |-> TRUE,
                matches_path      |-> Path(TRUE, <<"work", "run", "outputfile.xlsx">>),
                settings_path     |-> Path(TRUE, <<"work", "run", "outputfile-report.json">>),
                ground_truth_path |-> Path(TRUE, <<"work", "gt.xlsx">>),
                output_dir        |-> Path(TRUE, <<"work", "out">>)]

----------------------------------------------------------------------------
(* load_data *)

Lower(suffix) ==
    CASE suffix = ".XLSX" -> ".xlsx"
      [] suffix = ".XLS"  -> ".xls"
      [] OTHER            -> suffix

IsExcel(path) == Lower(path.suffix) \in {".xlsx", ".xls"}

WithoutReferences(t) == SelectSeq(t, LAMBDA r : r.card_type # RefCard)

CardIDs(t) == {t[i].card_ID : i \in DOMAIN t}

\* groupby('card_ID')['match_object_ID'].nunique()
UniqueMatchObjects(t, c) ==
    Cardinality({t[i].match_object_ID : i \in RowsOfCard(t, c)})

\* groupby('card_ID')['gt_entry_ID'].nunique()
UniqueGtEntries(g, c) ==
    Cardinality({g[i].gt_entry_ID : i \in RowsOfCard(g, c)})

\* A plausible slip: the counts of the two sides are not compared.
MatchingCardsUncounted(m, g) == CardIDs(m) \cap CardIDs(g)

\* The card_IDs whose two counts are equal (inner merge on card_ID, then ==).
MatchingCards(m, g) ==
    {c \in CardIDs(m) \cap CardIDs(g) : UniqueMatchObjects(m, c) = UniqueGtEntries(g, c)}

FilterCards(t, cards) == SelectSeq(t, LAMBDA r : r.card_ID \in cards)

\* One row of the merge: the candidate's columns, then the ground truth's;
\* the ground truth's card_ID gets the suffix _gt.
MergedRow(m, g) ==
    [box             |-> m.box,
     card_ID         |-> m.card_ID,
     match_object_ID |-> m.match_object_ID,
     card_type       |-> m.card_type,
     match_stat      |-> m.match_stat,
     matched_ID      |-> m.matched_ID,
     similarity      |-> m.similarity,
     gt_entry_ID     |-> g.gt_entry_ID,
     card_ID_gt      |-> g.card_ID,
     gt_card_type    |-> g.gt_card_type,
     gt_truth_type   |-> g.gt_truth_type,
     libris_ID       |-> g.libris_ID]

\* The rows of `right` that join the candidate row m, in the order of `right`.
RECURSIVE JoinRow(_, _)
JoinRow(m, right) ==
    IF right = <<>> THEN <<>>
    ELSE (IF m.match_object_ID = Head(right).gt_entry_ID
          THEN <<MergedRow(m, Head(right))>> ELSE <<>>)
         \o JoinRow(m, Tail(right))

\* left.merge(right, how="inner", left_on="match_object_ID",
\* right_on="gt_entry_ID"): the order of the left keys is kept.
RECURSIVE Merge(_, _)
Merge(left, right) ==
    IF left = <<>> THEN <<>>
    ELSE JoinRow(Head(left), right) \o Merge(Tail(left), right)

\* matchresults_without_references_filtered_df
FilteredMatches(m, g) ==
    FilterCards(WithoutReferences(m), MatchingCards(WithoutReferences(m), g))

\* gt_filtered_df
FilteredGt(m, g) == FilterCards(g, MatchingCards(WithoutReferences(m), g))

\* merged_df of two loaded, non-empty tables
MergedOf(m, g) == Merge(FilteredMatches(m, g), FilteredGt(m, g))

\* pd.read_excel in its try block: the table, or None after a failed read.
ReadExcel(path) == IF path.readable THEN DF(path.content) ELSE NoneDF

\* What the try block prints for the file at `path`, read from variable `name`.
ReadMessage(path, name) ==
    IF path.readable THEN <<Message("Loaded", name)>>
    ELSE <<Message("Error loading", name)>>

\* The ValueError of both suffix tests: one text, no path in it.
NotExcel ==
    [error |-> "ValueError", where |-> "load_data",
     message |-> Message("Ground truth file must be an Excel file", NoPath)]

\* A plausible slip: a table without rows counts as data.
IsNotNone(df) == ~IsNone(df)

HasData(df) == ~IsNone(df) /\ ~IsEmpty(df)

LoadData ==
    /\ pc = "load_data"
    /\ IF ~IsExcel(match_results_path)
       THEN /\ raised' = NotExcel
            /\ pc' = "raised"
            /\ UNCHANGED <<matchresults_df, gt_df, merged_df, printed>>
       ELSE IF ~IsExcel(ground_truth_path)
       THEN /\ raised' = NotExcel
            /\ pc' = "raised"
            /\ printed' = printed \o ReadMessage(match_results_path, "match_results_path")
            /\ UNCHANGED <<matchresults_df, gt_df, merged_df>>
       ELSE LET m == ReadExcel(match_results_path)
                g == ReadExcel(ground_truth_path)
                msgs == ReadMessage(match_results_path, "match_results_path")
                        \o ReadMessage(ground_truth_path, "ground_truth_path")
            IN  /\ IF HasData(m) /\ HasData(g)
                   THEN /\ matchresults_df' = m
                        /\ gt_df' = g
                        /\ merged_df' = DF(MergedOf(m.rows, g.rows))
                        /\ printed' = printed \o msgs
                   ELSE /\ matchresults_df' = NoneDF
                        /\ gt_df' = NoneDF
                        /\ merged_df' = NoneDF
                        /\ printed' = printed \o msgs
                                      \o <<Message("No match results or ground truth data found.",
                                                 NoPath)>>
                /\ pc' = "evaluate_extracted_card_types"
                /\ UNCHANGED raised
    /\ UNCHANGED <<match_results_path, ground_truth_path, evaluated_card_types,
                   evaluated_extracted_occurences, matches_df, results_df>>
    /\ UNCHANGED <<reportVars, cliVars, parseVars, pipelineVars>>

----------------------------------------------------------------------------
(* evaluate_extracted_card_types *)

\* t[[card_ID, col]].drop_duplicates(keep="first")
RECURSIVE DistinctPairs(_, _, _)
DistinctPairs(t, col, seen) ==
    IF t = <<>> THEN <<>>
    ELSE LET p == <<Head(t).card_ID, Head(t)[col]>>
         IN  IF p \in seen THEN DistinctPairs(Tail(t), col, seen)
             ELSE <<p>> \o DistinctPairs(Tail(t), col, seen \cup {p})

FillUnknown(v) == IF v = NA THEN "Unknown" ELSE v

\* The rows of the outer merge for one card_ID: the pairs of the two sides'
\* rows, a lone side being paired with a missing value.
RECURSIVE CrossPairs(_, _, _)
CrossPairs(c, ls, rs) ==
    IF ls = <<>> THEN <<>>
    ELSE [j \in DOMAIN rs |->
            [card_ID |-> c, card_type |-> FillUnknown(Head(ls)),
             gt_card_type |-> FillUnknown(rs[j])]]
         \o CrossPairs(c, Tail(ls), rs)

OrNA(s) == IF s = <<>> THEN <<NA>> ELSE s

RECURSIVE OuterMerge(_, _, _)
OuterMerge(keys, lp, rp) ==
    IF keys = <<>> THEN <<>>
    ELSE LET c  == Head(keys)
             ls == [i \in DOMAIN SelectSeq(lp, LAMBDA p : p[1] = c) |->
                        SelectSeq(lp, LAMBDA p : p[1] = c)[i][2]]
             rs == [i \in DOMAIN SelectSeq(rp, LAMBDA p : p[1] = c) |->
                        SelectSeq(rp, LAMBDA p : p[1] = c)[i][2]]
         IN  CrossPairs(c, OrNA(ls), OrNA(rs)) \o OuterMerge(Tail(keys), lp, rp)

CardTypesOf(m, g) ==
    OuterMerge(SortedIds(CardIDs(m) \cup CardIDs(g)),
               DistinctPairs(m, "card_type", {}),
               DistinctPairs(g, "gt_card_type", {}))

EvaluateExtractedCardTypes ==
    /\ pc = "evaluate_extracted_card_types"
    /\ IF IsNone(matchresults_df) \/ IsNone(gt_df)
       THEN /\ raised' = Raise("TypeError", "evaluate_extracted_card_types")
            /\ pc' = "raised"
            /\ UNCHANGED evaluated_card_types
       ELSE /\ evaluated_card_types' = DF(CardTypesOf(matchresults_df.rows, gt_df.rows))
            /\ pc' = "evaluate_extracted_occurences"
            /\ UNCHANGED raised
    /\ UNCHANGED <<match_results_path, ground_truth_path, matchresults_df, gt_df,
                   merged_df, evaluated_extracted_occurences, matches_df,
                   results_df, printed>>
    /\ UNCHANGED <<reportVars, cliVars, parseVars, pipelineVars>>

----------------------------------------------------------------------------
(* evaluate_extracted_occurences *)

\* t[[col]].drop_duplicates(keep="first") as a sequence of values
RECURSIVE DistinctValues(_, _, _)
DistinctValues(t, col, seen) ==
    IF t = <<>> THEN <<>>
    ELSE IF Head(t)[col] \in seen THEN DistinctValues(Tail(t), col, seen)
    ELSE <<Head(t)[col]>> \o DistinctValues(Tail(t), col, seen \cup {Head(t)[col]})

\* t.drop_duplicates(subset="match_object_ID", keep="first")
RECURSIVE DropDuplicateObjects(_, _)
DropDuplicateObjects(t, seen) ==
    IF t = <<>> THEN <<>>
    ELSE IF Head(t).match_object_ID \in seen THEN DropDuplicateObjects(Tail(t), seen)
    ELSE <<Head(t)>> \o DropDuplicateObjects(Tail(t), seen \cup {Head(t).match_object_ID})

\* t["card_ID"].value_counts() at card c; 0 stands for a card without rows
\* (the left join's missing value, filled with 0).
ValueCount(t, c) == Cardinality(RowsOfCard(t, c))

OccurencesOf(m, g) ==
    LET cards  == DistinctValues(WithoutReferences(m), "card_ID", {})
        counted == DropDuplicateObjects(
                       SelectSeq(m, LAMBDA r : r.match_stat # "No edition"), {})
    IN  [i \in DOMAIN cards |->
            [card_ID     |-> cards[i],
             match_count |-> ValueCount(counted, cards[i]),
             gt_count    |-> ValueCount(g, cards[i])]]

EvaluateExtractedOccurences ==
    /\ pc = "evaluate_extracted_occurences"
    /\ IF IsNone(matchresults_df) \/ IsNone(gt_df)
       THEN /\ raised' = Raise("TypeError", "evaluate_extracted_occurences")
            /\ pc' = "raised"
            /\ UNCHANGED evaluated_extracted_occurences
       ELSE /\ evaluated_extracted_occurences' =
                    DF(OccurencesOf(matchresults_df.rows, gt_df.rows))
            /\ pc' = "branch"
            /\ UNCHANGED raised
    /\ UNCHANGED <<match_results_path, ground_truth_path, matchresults_df, gt_df,
                   merged_df, evaluated_card_types, matches_df, results_df, printed>>
    /\ UNCHANGED <<reportVars, cliVars, parseVars, pipelineVars>>

----------------------------------------------------------------------------
(* __main__: if merged_df is not None and not merged_df.empty ... else *)

MainBranch ==
    /\ pc = "branch"
    /\ IF HasData(merged_df)
       THEN /\ pc' = "evaluate_match"
            /\ UNCHANGED printed
       ELSE /\ pc' = "done"
            /\ printed' = printed \o <<Message("No data to evaluate.", NoPath),
                                        Message("Done.", NoPath)>>
    /\ UNCHANGED <<match_results_path, ground_truth_path, matchresults_df, gt_df,
                   merged_df, evaluated_card_types, evaluated_extracted_occurences,
                   matches_df, results_df, raised>>
    /\ UNCHANGED <<reportVars, cliVars, parseVars, pipelineVars>>

----------------------------------------------------------------------------
(* parse_gt_id_string *)

\* str(id_string): a missing cell is the float nan, whose text is "nan"
Str(v) == IF v = NaN THEN <<"n", "a", "n">> ELSE v

\* A plausible slip: the semicolons are not turned into commas.
ReplaceNothing(s, a, b) == s

\* s.replace(a, b), a and b single characters
Replace(s, a, b) == [i \in DOMAIN s |-> IF s[i] = a THEN b ELSE s[i]]

\* s.split(d): the pieces between the occurrences of d, empty pieces kept
RECURSIVE Split(_, _)
Split(s, d) ==
    IF \A i \in DOMAIN s : s[i] # d THEN <<s>>
    ELSE LET k == CHOOSE i \in DOMAIN s :
                      s[i] = d /\ \A j \in 1..(i - 1) : s[j] # d
         IN  <<SubSeq(s, 1, k - 1)>> \o Split(SubSeq(s, k + 1, Len(s)), d)

IsSpace(ch) == ch = " "

\* s.strip()
RECURSIVE Strip(_)
Strip(s) ==
    IF s = <<>> THEN s
    ELSE IF IsSpace(Head(s)) THEN Strip(Tail(s))
    ELSE IF IsSpace(s[Len(s)]) THEN Strip(SubSeq(s, 1, Len(s) - 1))
    ELSE s

parse_gt_id_string(id_string) ==
    LET id_list == Split(Replace(Str(id_string), ";", ","), ",")
    IN  SelectSeq([i \in DOMAIN id_list |-> Strip(id_list[i])], LAMBDA id : id # <<>>)

NoList == [returned |-> FALSE]

\* No call of parse_gt_id_string on its own is part of the run.
NoCall ==
    /\ call_id_string = NaN
    /\ call_id_list = NoList

\* One call of parse_gt_id_string.
ParseGtIdString ==
    /\ pc = "parse_gt_id_string"
    /\ call_id_list' = [returned |-> TRUE, value |-> parse_gt_id_string(call_id_string)]
    /\ pc' = "parsed"
    /\ UNCHANGED <<match_results_path, ground_truth_path, matchresults_df, gt_df,
                   merged_df, evaluated_card_types, evaluated_extracted_occurences,
                   matches_df, results_df, raised, printed, call_id_string>>
    /\ UNCHANGED <<reportVars, cliVars, pipelineVars>>

InList(x, list) == \E i \in DOMAIN list : list[i] = x

----------------------------------------------------------------------------
(* evaluate_match *)

\* A plausible slip: the ground-truth type is not consulted for "No match".
evaluate_match_ignoring_truth_type(row) ==
    IF row.match_stat = "No match" THEN "Correct"
    ELSE IF row.match_stat = "No edition" THEN "No edition"
    ELSE IF InList(row.matched_ID, parse_gt_id_string(row.libris_ID)) THEN "Correct"
    ELSE "Incorrect"

evaluate_match(row) ==
    IF row.match_stat = "No match"
    THEN (IF row.gt_truth_type = "no-match" THEN "Correct" ELSE "Incorrect")
    ELSE IF row.match_stat = "No edition" THEN "No edition"
    ELSE IF InList(row.matched_ID, parse_gt_id_string(row.libris_ID)) THEN "Correct"
    ELSE "Incorrect"

\* matches_df.apply(evaluate_match, axis=1) stored as column match_result
WithMatchResult(t) ==
    [i \in DOMAIN t |-> t[i] @@ [match_result |-> evaluate_match(t[i])]]

EvaluateMatch ==
    /\ pc = "evaluate_match"
    /\ matches_df' = DF(WithMatchResult(merged_df.rows))
    /\ pc' = "label_matches"
    /\ UNCHANGED <<match_results_path, ground_truth_path, matchresults_df, gt_df,
                   merged_df, evaluated_card_types, evaluated_extracted_occurences,
                   results_df, raised, printed>>
    /\ UNCHANGED <<reportVars, cliVars, parseVars, pipelineVars>>

----------------------------------------------------------------------------
(* label_matches *)

HasStat(group, stat) == \E i \in DOMAIN group : group[i].match_stat = stat

\* group['similarity'].idxmax() finds no label when every similarity is
\* missing, and group.loc[...] then raises.
IdxMaxRaises(group) == \A i \in DOMAIN group : group[i].similarity = NaNSim

\* A plausible slip: the first row of the group is taken for its best one.
FirstRowIdx(group) == 1

\* A plausible slip: of the rows that share the largest similarity the last
\* is taken.
LastIdxMax(group) ==
    CHOOSE i \in DOMAIN group :
        /\ group[i].similarity # NaNSim
        /\ \A j \in DOMAIN group :
              group[j].similarity # NaNSim =>
                  /\ group[j].similarity[1] <= group[i].similarity[1]
                  /\ (j > i => group[j].similarity[1] < group[i].similarity[1])

\* group['similarity'].idxmax(): the first row that holds the largest
\* similarity, missing values skipped.
IdxMax(group) ==
    CHOOSE i \in DOMAIN group :
        /\ group[i].similarity # NaNSim
        /\ \A j \in DOMAIN group :
              group[j].similarity # NaNSim =>
                  /\ group[j].similarity[1] <= group[i].similarity[1]
                  /\ (j < i => group[j].similarity[1] < group[i].similarity[1])

CorrectRows(group) == SelectSeq(group, LAMBDA r : r.match_result = "Correct")

\* A plausible slip: the rows of the group are counted, not its correct rows.
RowCount(group) == Len(group)

\* (group['match_result'] == 'Correct').sum()
CorrectCount(group) == Len(CorrectRows(group))

\* A plausible slip: "No edition" is required of all rows, not of any.
BranchOfAllEdition(group) ==
    IF HasStat(group, "No match") THEN "no_match"
    ELSE IF \A i \in DOMAIN group : group[i].match_stat = "No edition" THEN "no_edition"
    ELSE "candidates"

\* The branch of the if/elif/else that label_matches takes.
BranchOf(group) ==
    IF HasStat(group, "No match") THEN "no_match"
    ELSE IF HasStat(group, "No edition") THEN "no_edition"
    ELSE "candidates"

\* label_matches raises (KeyError or ValueError, by pandas version) where an
\* idxmax it evaluates has no value to return.
LabelRaises(group) ==
    /\ BranchOf(group) = "candidates"
    /\ \/ IdxMaxRaises(group)
       \/ /\ group[IdxMax(group)].match_result # "Correct"
          /\ CorrectCount(group) > 0
          /\ IdxMaxRaises(CorrectRows(group))

\* A plausible slip: the group is sorted by ascending similarity.
SortsBeforeAscending(group, j, i) ==
    IF group[i].similarity = NaNSim
    THEN group[j].similarity # NaNSim \/ j < i
    ELSE /\ group[j].similarity # NaNSim
         /\ \/ group[j].similarity[1] < group[i].similarity[1]
            \/ group[j].similarity[1] = group[i].similarity[1] /\ j < i

\* Row j of the group stands before row i in the sorted group: a larger
\* similarity first, missing similarities last (na_position='last'), rows of
\* equal similarity in the order of the group.
SortsBefore(group, j, i) ==
    IF group[i].similarity = NaNSim
    THEN group[j].similarity # NaNSim \/ j < i
    ELSE /\ group[j].similarity # NaNSim
         /\ \/ group[j].similarity[1] > group[i].similarity[1]
            \/ group[j].similarity[1] = group[i].similarity[1] /\ j < i

\* group.sort_values(by='similarity', ascending=False)
sort_values(group) ==
    [p \in DOMAIN group |->
        group[CHOOSE i \in DOMAIN group :
                 Cardinality({j \in DOMAIN group : j # i /\ SortsBefore(group, j, i)}) = p - 1]]

Digit(n) == <<"0", "1", "2", "3", "4", "5", "6", "7", "8", "9">>[n + 1]

\* f"{sim:.4f}" of a similarity given in hundredths
Format4f(sim) ==
    <<Digit(sim[1] \div 100), ".", Digit((sim[1] \div 10) % 10), Digit(sim[1] % 10), "0", "0">>

\* ", ".join(entries)
RECURSIVE CommaJoin(_)
CommaJoin(entries) ==
    IF entries = <<>> THEN <<>>
    ELSE IF Len(entries) = 1 THEN entries[1]
    ELSE entries[1] \o <<",", " ">> \o CommaJoin(Tail(entries))

\* The "matched_IDs" column of an Outcome.
matched_IDs(group) ==
    LET sorted == sort_values(group)
    IN  CommaJoin([i \in DOMAIN sorted |->
            IF sorted[i].matched_ID # NaN THEN Str(sorted[i].matched_ID) ELSE <<>>])

\* The "similarity_scores" column of an Outcome.
similarity_scores(group) ==
    LET sorted == sort_values(group)
    IN  CommaJoin([i \in DOMAIN sorted |->
            IF sorted[i].similarity # NaNSim THEN Format4f(sorted[i].similarity) ELSE <<>>])

\* The columns every Outcome copies from the first row of its group.
OutcomeOf(group, result, matched_ID, matched_similarity, correct_count) ==
    [box                |-> group[1].box,
     card_ID            |-> group[1].card_ID,
     match_object_ID    |-> group[1].match_object_ID,
     gt_card_type       |-> group[1].gt_card_type,
     gt_truth_type      |-> group[1].gt_truth_type,
     gt_libris_ID       |-> group[1].libris_ID,
     card_type          |-> group[1].card_type,
     match_stat         |-> group[1].match_stat,
     matched_ID         |-> matched_ID,
     matched_similarity |-> matched_similarity,
     matched_IDs        |-> matched_IDs(group),
     similarity_scores  |-> similarity_scores(group),
     correct_count      |-> correct_count,
     result             |-> result]

\* The elif correct_count > 0 branch: the best of the locally correct rows.
SecondaryOutcome(group) ==
    LET top_candidate == CorrectRows(group)[IdxMax(CorrectRows(group))]
    IN  OutcomeOf(group, "Secondary correct", top_candidate.matched_ID,
                  top_candidate.similarity, <<CorrectCount(group)>>)

\* The Outcome of a group on which label_matches does not raise.
label_matches(group) ==
    IF BranchOf(group) = "no_match"
    THEN OutcomeOf(group,
                   IF group[1].match_result = "Correct" THEN "Correct" ELSE "Incorrect",
                   NaN, NaNSim, NoCount)
    ELSE IF BranchOf(group) = "no_edition"
    THEN OutcomeOf(group, "No edition", NaN, NaNSim, NoCount)
    ELSE LET top_candidate == group[IdxMax(group)]
         IN  IF top_candidate.match_result = "Correct"
             THEN OutcomeOf(group, "Correct", top_candidate.matched_ID,
                            top_candidate.similarity, <<CorrectCount(group)>>)
             ELSE IF CorrectCount(group) > 0
             THEN SecondaryOutcome(group)
             ELSE OutcomeOf(group, "Incorrect", top_candidate.matched_ID,
                            top_candidate.similarity, <<CorrectCount(group)>>)

ObjectIDs(t) == {t[i].match_object_ID : i \in DOMAIN t}

\* The group of key k: its rows in the order of the table.
GroupOf(t, k) == SelectSeq(t, LAMBDA r : r.match_object_ID = k)

\* groupby("match_object_ID"): the keys, sorted.
GroupKeys(t) == SortedIds(ObjectIDs(t))

\* matches_df.groupby("match_object_ID").apply(label_matches)
\*     .reset_index(drop=True), where no group raises
LabelledGroups(t) ==
    LET keys == GroupKeys(t)
    IN  [i \in DOMAIN keys |-> label_matches(GroupOf(t, keys[i]))]

ApplyRaises(t) == \E k \in ObjectIDs(t) : LabelRaises(GroupOf(t, k))

\* The group at which the apply stops: the first, in key order, that raises.
RaisingGroup(t) ==
    CHOOSE k \in ObjectIDs(t) :
        /\ LabelRaises(GroupOf(t, k))
        /\ \A j \in ObjectIDs(t) : LabelRaises(GroupOf(t, j)) => Rank(k) <= Rank(j)

LabelMatches ==
    /\ pc = "label_matches"
    /\ IF ApplyRaises(matches_df.rows)
       THEN /\ raised' = [error |-> "KeyError", where |-> "label_matches",
                            group |-> RaisingGroup(matches_df.rows)]
            /\ pc' = "raised"
            /\ UNCHANGED results_df
       ELSE /\ results_df' = DF(LabelledGroups(matches_df.rows))
            /\ pc' = "generate_pdf_report"
            /\ UNCHANGED raised
    /\ UNCHANGED <<match_results_path, ground_truth_path, matchresults_df, gt_df,
                   merged_df, evaluated_card_types, evaluated_extracted_occurences,
                   matches_df, printed>>
    /\ UNCHANGED <<reportVars, cliVars, parseVars, pipelineVars>>

----------------------------------------------------------------------------
(* evaluate_matches: the similarity series, and generate_pdf_report *)

\* t[col].tolist()
ColumnOf(t, col) == [i \in DOMAIN t |-> t[i][col]]

\* matches_df[(match_result == result) & (match_stat == stat)]
RowsWith(t, result, stat) ==
    SelectSeq(t, LAMBDA r : r.match_result = result /\ r.match_stat = stat)

\* matches_df[match_stat == stat].groupby("match_object_ID")
\*     .filter(lambda g: (g["match_result"] != "Correct").all())
RowsOfIncorrectGroups(t, stat) ==
    LET of_stat == SelectSeq(t, LAMBDA r : r.match_stat = stat)
    IN  SelectSeq(of_stat, LAMBDA r :
            \A i \in DOMAIN of_stat :
                of_stat[i].match_object_ID = r.match_object_ID
                    => of_stat[i].match_result # "Correct")

\* results_df[(result == result) & (match_stat == stat)]
ResultsWith(res, result, stat) ==
    SelectSeq(res, LAMBDA o : o.result = result /\ o.match_stat = stat)

\* One histogram: its key, its cumulative mode and its two series. A series of
\* the candidate rows holds NaN for a missing similarity, a series of the
\* Outcomes holds None for an Outcome without a winner.
Scores(key, cumulative_mode, table, correct, incorrect) ==
    [key |-> key, cumulative_mode |-> cumulative_mode, table |-> table,
     correct |-> correct, incorrect |-> incorrect]

matches_similarity_scores(t) ==
    <<Scores("single_matches", "series", "matches_df",
             ColumnOf(RowsWith(t, "Correct", "Single"), "similarity"),
             ColumnOf(RowsWith(t, "Incorrect", "Single"), "similarity")),
      Scores("multiple_matches", "series", "matches_df",
             ColumnOf(RowsWith(t, "Correct", "Multiple"), "similarity"),
             ColumnOf(RowsOfIncorrectGroups(t, "Multiple"), "similarity")),
      Scores("unqualified_single_matches", "series", "matches_df",
             ColumnOf(RowsWith(t, "Correct", "Unqualified"), "similarity"),
             ColumnOf(RowsWith(t, "Incorrect", "Unqualified"), "similarity")),
      Scores("unqualified_multiple_matches", "series", "matches_df",
             ColumnOf(RowsWith(t, "Correct", "Unqualified multiple"), "similarity"),
             ColumnOf(RowsOfIncorrectGroups(t, "Unqualified multiple"), "similarity"))>>

match_results_similarity_scores(res) ==
    LET top_correct_single   == ResultsWith(res, "Correct", "Single")
        top_correct_multiple == ResultsWith(res, "Correct", "Multiple")
        correct_multiple     == ResultsWith(res, "Secondary correct", "Multiple")
        incorrect_multiple   == ResultsWith(res, "Incorrect", "Multiple")
        incorrect_single     == ResultsWith(res, "Incorrect", "Single")
    IN  <<Scores("top_correct_single_matches", "series", "results_df",
                 ColumnOf(top_correct_single, "matched_similarity"),
                 ColumnOf(incorrect_single, "matched_similarity")),
          Scores("top_correct_multiple_matches", "series", "results_df",
                 ColumnOf(top_correct_multiple, "matched_similarity"),
                 ColumnOf(incorrect_multiple, "matched_similarity")
                     \o ColumnOf(correct_multiple, "matched_similarity")),
          Scores("correct_multiple_matches", "series", "results_df",
                 ColumnOf(correct_multiple, "matched_similarity"),
                 ColumnOf(incorrect_multiple, "matched_similarity"))>>

total_match_results_similarity_scores(res) ==
    LET top_correct == SelectSeq(res, LAMBDA o :
                           o.result = "Correct" /\ o.match_stat \in {"Multiple", "Single"})
    IN  <<Scores("all", "total", "results_df",
                 ColumnOf(top_correct, "matched_similarity"),
                 ColumnOf(ResultsWith(res, "Incorrect", "Multiple"), "matched_similarity")
                     \o ColumnOf(ResultsWith(res, "Incorrect", "Single"), "matched_similarity")
                     \o ColumnOf(ResultsWith(res, "Secondary correct", "Multiple"),
                                 "matched_similarity"))>>

monographs_match_results_similarity_scores(res) ==
    LET monographs == SelectSeq(res, LAMBDA o : o.card_type = "Monografi")
    IN  <<Scores("single", "total", "results_df",
                 ColumnOf(ResultsWith(monographs, "Correct", "Single"), "matched_similarity"),
                 ColumnOf(ResultsWith(monographs, "Incorrect", "Single"),
                          "matched_similarity"))>>

\* The argument of generate_pdf_report: one entry per page.
SimilarityScoresList(t, res) ==
    <<matches_similarity_scores(t),
      match_results_similarity_scores(res),
      total_match_results_similarity_scores(res),
      monographs_match_results_similarity_scores(res)>>

\* np.array(series).min(): an empty array has no minimum (ValueError); None
\* among numbers cannot be ordered (TypeError); NaN is a number.
MinError(series, table) ==
    IF series = <<>> THEN "ValueError"
    ELSE IF table = "results_df" /\ \E i \in DOMAIN series : series[i] = NaNSim
    THEN "TypeError"
    ELSE "none"

\* The exception draw_histogram raises on `data`, or "none".
DrawError(data) ==
    IF MinError(data.correct, data.table) # "none"
    THEN MinError(data.correct, data.table)
    ELSE MinError(data.incorrect, data.table)

\* The numbers of draw_histogram are exact fractions here and floats in the
\* code. A similarity is a number of hundredths; the padding is a twentieth of
\* the score range, so the ends of the bins are numbers of twentieths of a
\* hundredth; the edges divide that span into linspace_num - 1 parts.
linspace_num == 40

padding_divisor == 20

one_in_hundredths == 100

Smaller(a, b) == IF a <= b THEN a ELSE b

Larger(a, b) == IF a >= b THEN a ELSE b

\* np.array(series).min() and .max(), in hundredths
ArrayMin(series) ==
    CHOOSE v \in {series[i][1] : i \in DOMAIN series} :
        \A i \in DOMAIN series : v <= series[i][1]

ArrayMax(series) ==
    CHOOSE v \in {series[i][1] : i \in DOMAIN series} :
        \A i \in DOMAIN series : v >= series[i][1]

score_min(data) == Smaller(ArrayMin(data.correct), ArrayMin(data.incorrect))

score_max(data) == Larger(ArrayMax(data.correct), ArrayMax(data.incorrect))

\* 0.05 * score_range, in twentieths of a hundredth
padding(data) == score_max(data) - score_min(data)

\* max(0, score_min - padding), in twentieths of a hundredth
bin_min(data) == Larger(0, padding_divisor * score_min(data) - padding(data))

\* min(1, score_max + padding), in twentieths of a hundredth
bin_max(data) ==
    Smaller(padding_divisor * one_in_hundredths, padding_divisor * score_max(data) + padding(data))

\* np.linspace(start, stop, num): num points, the first start and the last
\* stop, each given as a number of (num - 1)-th parts of the unit of start.
linspace(start, stop, num) ==
    [k \in 1..num |-> (num - 1) * start + (k - 1) * (stop - start)]

\* A score in the unit of the edges.
InEdgeUnits(sim) == sim[1] * padding_divisor * (linspace_num - 1)

\* np.histogram(values, bins=bins)[0]: the bins are half open, the last one
\* closed.
histogram(values, bins) ==
    [k \in 1..(Len(bins) - 1) |->
        Cardinality({i \in DOMAIN values :
            /\ bins[k] <= InEdgeUnits(values[i])
            /\ IF k = Len(bins) - 1
               THEN InEdgeUnits(values[i]) <= bins[k + 1]
               ELSE InEdgeUnits(values[i]) < bins[k + 1]})]

RECURSIVE SumFrom(_, _)
SumFrom(counts, k) == IF k > Len(counts) THEN 0 ELSE counts[k] + SumFrom(counts, k + 1)

\* A plausible slip: the counts are accumulated from the first bin on.
cumsum(counts) == [k \in DOMAIN counts |-> SumFrom(counts, 1) - SumFrom(counts, k + 1)]

\* np.cumsum(counts[::-1])[::-1]
reverse_cumsum(counts) == [k \in DOMAIN counts |-> SumFrom(counts, k)]

NoTotal == <<>>

\* The percentages are fractions <<numerator, denominator>>.
reverse_cumulative_percent(values, bins, total) ==
    LET cumulative == reverse_cumsum(histogram(values, bins))
    IN  [k \in DOMAIN cumulative |->
            <<100 * cumulative[k], IF total # NoTotal THEN total[1] ELSE cumulative[1]>>]

\* total_cumulative[0], after total_cumulative[total_cumulative == 0] = 1
total_cumulative_first(data, bins) ==
    LET total_counts == [k \in 1..(Len(bins) - 1) |->
                            histogram(data.correct, bins)[k] + histogram(data.incorrect, bins)[k]]
        first == reverse_cumsum(total_counts)[1]
    IN  IF first = 0 THEN 1 ELSE first

\* What draw_histogram draws of `data`, where it does not raise: the bars of
\* the two series and the two reverse cumulative lines.
draw_histogram(data) ==
    LET bins == linspace(bin_min(data), bin_max(data), linspace_num)
        total == IF data.cumulative_mode = "total"
                 THEN <<total_cumulative_first(data, bins)>> ELSE NoTotal
    IN  [key |-> data.key, cumulative_mode |-> data.cumulative_mode,
         correct |-> data.correct, incorrect |-> data.incorrect,
         bins |-> bins,
         correct_counts |-> histogram(data.correct, bins),
         incorrect_counts |-> histogram(data.incorrect, bins),
         correct_cumulative |-> reverse_cumulative_percent(data.correct, bins, total),
         incorrect_cumulative |-> reverse_cumulative_percent(data.incorrect, bins, total)]

\* One page of the chart document: the histograms of its entries.
DrawnPage(page) == [j \in DOMAIN page |-> draw_histogram(page[j])]

\* The pages with a histogram that draw_histogram cannot draw.
FailingPages(list) ==
    {i \in DOMAIN list : \E j \in DOMAIN list[i] : DrawError(list[i][j]) # "none"}

FirstOf(S) == CHOOSE i \in S : \A j \in S : i <= j

\* The first histogram that draw_histogram cannot draw.
FailingPlot(list) ==
    LET page == list[FirstOf(FailingPages(list))]
    IN  page[FirstOf({j \in DOMAIN page : DrawError(page[j]) # "none"})]

\* The chart document with the pages saved so far.
PdfFile(pages) == [written |-> TRUE, pages |-> pages]

\* What is left of the chart document when the with block is left by an
\* exception: the pages saved before it; a document without a page is kept or
\* not written, by the version of PdfPages.
PdfAfterError(list) ==
    LET last == FirstOf(FailingPages(list)) - 1
        saved == [i \in 1..last |-> DrawnPage(list[i])]
    IN  IF saved = <<>> THEN {NoFile, PdfFile(saved)} ELSE {PdfFile(saved)}

GeneratePdfReport ==
    /\ pc = "generate_pdf_report"
    /\ LET list == SimilarityScoresList(matches_df.rows, results_df.rows)
       IN  IF FailingPages(list) # {}
           THEN /\ raised' = [error |-> DrawError(FailingPlot(list)),
                              where |-> "draw_histogram",
                              key |-> FailingPlot(list).key]
                /\ scores_pdf' \in PdfAfterError(list)
                /\ pc' = "raised"
           ELSE /\ scores_pdf' = PdfFile([i \in DOMAIN list |-> DrawnPage(list[i])])
                /\ pc' = "evaluate_card_completeness"
                /\ UNCHANGED raised
    /\ UNCHANGED <<match_results_path, ground_truth_path, matchresults_df, gt_df,
                   merged_df, evaluated_card_types, evaluated_extracted_occurences,
                   matches_df, results_df, printed, evaluated_card_completeness,
                   report_xlsx>>
    /\ UNCHANGED <<cliVars, parseVars, pipelineVars>>

----------------------------------------------------------------------------
(* evaluate_card_completeness *)

\* match_results.groupby("card_ID").apply(...).reset_index(): one row per
\* card_ID of the Outcome table, in the order of the card_IDs.
evaluate_card_completeness(match_results) ==
    LET keys == SortedIds(CardIDs(match_results))
    IN  [i \in DOMAIN keys |->
            LET g == FilterCards(match_results, {keys[i]})
            IN  [card_ID      |-> keys[i],
                 box          |-> g[1].box,
                 card_type    |-> g[1].card_type,
                 completeness |-> IF \A j \in DOMAIN g : g[j].match_stat = "Single"
                                  THEN "Complete" ELSE "Incomplete"]]

EvaluateCardCompleteness ==
    /\ pc = "evaluate_card_completeness"
    /\ evaluated_card_completeness' = DF(evaluate_card_completeness(results_df.rows))
    /\ pc' = "generate_excel_report"
    /\ UNCHANGED <<match_results_path, ground_truth_path, matchresults_df, gt_df,
                   merged_df, evaluated_card_types, evaluated_extracted_occurences,
                   matches_df, results_df, raised, printed, scores_pdf, report_xlsx>>
    /\ UNCHANGED <<cliVars, parseVars, pipelineVars>>

----------------------------------------------------------------------------
(* generate_excel_report *)

row_spacer == 2
col_spacer == 3

NaNRate == <<>>       \* np.nan as an Error rate; a rate is <<numerator, denominator>>

\* A cross-tab: its index, its columns and its cells.
Table(index, columns, cell) == [index |-> index, columns |-> columns, cell |-> cell]

\* match_results filtered by a card_type filter and a box filter
Subset(res, card_filter, box_filter) ==
    SelectSeq(res, LAMBDA o : /\ (card_filter # "All" => o.card_type = card_filter)
                              /\ (box_filter # "All" => o.box = box_filter))

\* t.pivot_table(index=index, columns=columns, values=..., aggfunc="count",
\* fill_value=0): the rows of t per pair of observed values
PivotCount(t, index, columns) ==
    Table({t[i][index] : i \in DOMAIN t}, {t[i][columns] : i \in DOMAIN t},
          [x \in {t[i][index] : i \in DOMAIN t} \X {t[i][columns] : i \in DOMAIN t} |->
              Cardinality({i \in DOMAIN t : t[i][index] = x[1] /\ t[i][columns] = x[2]})])

\* pd.DataFrame({'Info': ['No Data']})
InfoFrame == Table({"0"}, {"Info"}, [x \in {<<"0", "Info">>} |-> "No Data"])

\* p.reindex(index=index, columns=columns, fill_value=0)
Reindex(p, index, columns) ==
    Table(index, columns,
          [x \in index \X columns |->
              IF x[1] \in p.index /\ x[2] \in p.columns THEN p.cell[x] ELSE 0])

\* p.shape
Shape(p) == <<Cardinality(p.index), Cardinality(p.columns)>>

\* row.get(column, default) on the row `at` of p
RowGet(p, at, column, default) ==
    IF column \in p.columns THEN p.cell[<<at, column>>] ELSE default

\* A plausible slip: the rate is computed without the test of the total.
calculate_error_rate_unguarded(p, at) ==
    <<RowGet(p, at, "Incorrect", 0) + RowGet(p, at, "Secondary correct", 0),
      RowGet(p, at, "Correct", 0) + RowGet(p, at, "Incorrect", 0)
          + RowGet(p, at, "Secondary correct", 0)>>

calculate_error_rate(p, at) ==
    LET correct           == RowGet(p, at, "Correct", 0)
        incorrect         == RowGet(p, at, "Incorrect", 0)
        secondary_correct == RowGet(p, at, "Secondary correct", 0)
        total             == correct + incorrect + secondary_correct
    IN  IF total = 0 THEN NaNRate ELSE <<incorrect + secondary_correct, total>>

MaxOf(S) == CHOOSE x \in S : \A y \in S : y <= x

\* match_results["match_stat"].unique(), match_results["result"].unique()
\* (sorted; the order of the rows and columns inside a table is not kept)
AllMatchStats(res) == {res[i].match_stat : i \in DOMAIN res}

AllResults(res) == {res[i].result : i \in DOMAIN res}

\* ['All'] + match_results[col].unique().tolist()
Filters(res, col) == <<"All">> \o DistinctValues(res, col, {})

\* The cross-tab of a non-empty subset in the first pass.
SizedPivot(res, sub) ==
    Reindex(PivotCount(sub, "match_stat", "result"), AllMatchStats(res), AllResults(res))

\* The pairs of filters whose subset is not empty.
NonEmptySubsets(res) ==
    {f \in (DOMAIN Filters(res, "card_type")) \X (DOMAIN Filters(res, "box")) :
        Subset(res, Filters(res, "card_type")[f[1]], Filters(res, "box")[f[2]]) # <<>>}

max_table_height(res) ==
    MaxOf({0} \cup {Shape(SizedPivot(res, Subset(res, Filters(res, "card_type")[f[1]],
                                                Filters(res, "box")[f[2]])))[1] + 1 :
                        f \in NonEmptySubsets(res)})

max_table_width(res) ==
    MaxOf({0} \cup {Shape(SizedPivot(res, Subset(res, Filters(res, "card_type")[f[1]],
                                                Filters(res, "box")[f[2]])))[2] + 1 :
                        f \in NonEmptySubsets(res)})

\* A plausible slip: the label row and the spacer are left out of the step.
static_row_step_of_table(height) == height

static_row_step(height) == height + 1 + row_spacer

static_col_step(width) == width + col_spacer

\* The cells frame.to_excel(startrow, startcol, header, index) writes for a
\* frame of nrows rows and ncols columns with a one-level index and header.
ExcelCells(startrow, startcol, nrows, ncols, header, index) ==
    (startrow..(startrow + nrows - 1 + (IF header THEN 1 ELSE 0)))
        \X (startcol..(startcol + ncols - 1 + (IF index THEN 1 ELSE 0)))

\* The cross-tab of the second pass, with the Error rate column.
StatisticsTable(res, sub) ==
    LET pivot_table == Reindex(IF sub # <<>> THEN PivotCount(sub, "match_stat", "result")
                               ELSE InfoFrame,
                               AllMatchStats(res), AllResults(res))
    IN  [counts     |-> pivot_table,
         error_rate |-> [at \in pivot_table.index |-> calculate_error_rate(pivot_table, at)]]

\* The block of the i-th card_type filter and the j-th box filter (from 1).
StatisticsBlock(res, i, j) ==
    LET card_filter == Filters(res, "card_type")[i]
        box_filter  == Filters(res, "box")[j]
        current_start_row == (i - 1) * static_row_step(max_table_height(res))
        current_start_col == (j - 1) * static_col_step(max_table_width(res))
        table == StatisticsTable(res, Subset(res, card_filter, box_filter))
    IN  [card_filter |-> card_filter,
         box_filter  |-> box_filter,
         table       |-> table,
         cells       |-> ExcelCells(current_start_row, current_start_col, 1, 1,
                                    FALSE, FALSE)
                         \cup ExcelCells(current_start_row + 1, current_start_col,
                                         Shape(table.counts)[1],
                                         Shape(table.counts)[2] + 1, TRUE, TRUE)]

Statistics(res) ==
    [f \in (DOMAIN Filters(res, "card_type")) \X (DOMAIN Filters(res, "box")) |->
        StatisticsBlock(res, f[1], f[2])]

\* classification_report(y_true, y_pred, output_dict=True)[label]["support"]
\* for the labels of either column: the rows whose truth is the label.
Support(t, true, pred) ==
    [label \in {t[i][true] : i \in DOMAIN t} \cup {t[i][pred] : i \in DOMAIN t} |->
        Cardinality({i \in DOMAIN t : t[i][true] = label})]

\* The sheets of the spreadsheet.
ExcelReport(evaluated_matches, match_results, card_types, occurences, completeness, settings) ==
    [written                      |-> TRUE,
     matches                      |-> evaluated_matches,
     match_results                |-> match_results,
     statistics                   |-> Statistics(match_results),
     card_types_confusion_matrix  |-> PivotCount(card_types, "gt_card_type", "card_type"),
     card_types_support           |-> Support(card_types, "gt_card_type", "card_type"),
     occurences_confusion_matrix  |-> PivotCount(occurences, "gt_count", "match_count"),
     occurences_support           |-> Support(occurences, "gt_count", "match_count"),
     card_completeness_pivot      |-> PivotCount(completeness, "card_type", "completeness"),
     settings                     |-> settings]

GenerateExcelReport ==
    /\ pc = "generate_excel_report"
    /\ report_xlsx' = ExcelReport(matches_df.rows, results_df.rows,
                                  evaluated_card_types.rows,
                                  evaluated_extracted_occurences.rows,
                                  evaluated_card_completeness.rows,
                                  paths.settings_path)
    /\ printed' = printed \o <<Message("Writing settings", "settings_path"),
                               Message("Done.", NoPath)>>
    /\ pc' = "done"
    /\ UNCHANGED <<match_results_path, ground_truth_path, matchresults_df, gt_df,
                   merged_df, evaluated_card_types, evaluated_extracted_occurences,
                   matches_df, results_df, raised, scores_pdf,
                   evaluated_card_completeness>>
    /\ UNCHANGED <<cliVars, parseVars, pipelineVars>>

----------------------------------------------------------------------------
(* run_pipeline.py: the step runner *)

\* A directory name and whether the directory exists; None; the empty string
\* of a variable that is set to nothing.
NoneDir == [none |-> TRUE]

Dir(name, exists) == [none |-> FALSE, name |-> name, exists |-> exists]

\* os.getcwd()
getcwd == Dir("cwd", TRUE)

\* `if target_working_dir:` None and "" are falsy.
Truthy(d) == ~d.none /\ d.name # ""

\* define_pipeline_steps(): the steps in their order; only "match" has the
\* key "working_dir", whose value is MATCH_WORKING_DIR.
define_pipeline_steps(match_working_dir) ==
    <<[key |-> "create-input"],
      [key |-> "create-job"],
      [key |-> "check-job"],
      [key |-> "parse"],
      [key |-> "enrich"],
      [key |-> "match", working_dir |-> match_working_dir],
      [key |-> "evaluate"]>>

pipeline_steps == define_pipeline_steps(MATCH_WORKING_DIR)

\* step_keys of __main__
step_keys == {define_pipeline_steps(NoneDir)[n].key : n \in 1..Len(define_pipeline_steps(NoneDir))}

\* step.get("working_dir", os.getcwd()): the default is for a missing key,
\* not for a key whose value is None.
target_working_dir(step) ==
    IF "working_dir" \in DOMAIN step THEN step.working_dir ELSE getcwd

Unbound == [bound |-> FALSE]

\* The CompletedProcess that subprocess.run returns.
CompletedProcess(key, returncode) == [bound |-> TRUE, key |-> key, returncode |-> returncode]

NoFailure == [error |-> "none"]

NoExit == <<>>

\* A plausible slip: subprocess.run is called without check=True.
Unchecked(returncode) == FALSE

\* subprocess.run(..., check=True) raises CalledProcessError on a return code
\* other than 0.
CalledProcessError(returncode) == returncode # 0

\* The return codes of a command: 0, and 1 for every other one.
ReturnCodes == {0, 1}

\* sys.exit(1) in an except block.
Halt(error) ==
    /\ failure' = [error |-> error, key |-> pipeline_steps[step_index].key]
    /\ pipeline_pc' = "exited"
    /\ exit_code' = <<1>>

\* An iteration of the loop for a step that is not selected.
SkipStep ==
    /\ pipeline_pc = "for"
    /\ step_index <= Len(pipeline_steps)
    /\ pipeline_steps[step_index].key \notin selected_steps
    /\ step_index' = step_index + 1
    /\ UNCHANGED <<MATCH_WORKING_DIR, selected_steps, pipeline_pc, run_result, executed,
                   completed, reported, failure, exit_code>>
    /\ UNCHANGED <<runVars, reportVars, cliVars, parseVars>>

\* A selected step with a working directory: change_dir, then subprocess.run
\* starts the command. os.chdir to a directory that does not exist and a
\* command that is not found both raise FileNotFoundError.
StartStep ==
    /\ pipeline_pc = "for"
    /\ step_index <= Len(pipeline_steps)
    /\ pipeline_steps[step_index].key \in selected_steps
    /\ Truthy(target_working_dir(pipeline_steps[step_index]))
    /\ \E command_found \in BOOLEAN :
          IF target_working_dir(pipeline_steps[step_index]).exists /\ command_found
          THEN /\ executed' = Append(executed, pipeline_steps[step_index].key)
               /\ pipeline_pc' = "subprocess"
               /\ UNCHANGED <<failure, exit_code>>
          ELSE /\ Halt("FileNotFoundError")
               /\ UNCHANGED executed
    /\ UNCHANGED <<MATCH_WORKING_DIR, selected_steps, step_index, run_result, completed,
                   reported>>
    /\ UNCHANGED <<runVars, reportVars, cliVars, parseVars>>

\* The command of the step returns: with 0 the step is printed as succeeded
\* and the loop goes on, otherwise the orchestrator exits.
CommandReturns ==
    /\ pipeline_pc = "subprocess"
    /\ \E returncode \in ReturnCodes :
          /\ completed' = Append(completed, [key |-> pipeline_steps[step_index].key,
                                             returncode |-> returncode])
          /\ IF CalledProcessError(returncode)
             THEN /\ Halt("CalledProcessError")
                  /\ UNCHANGED <<run_result, reported, step_index>>
             ELSE /\ run_result' = CompletedProcess(pipeline_steps[step_index].key, returncode)
                  /\ reported' = Append(reported, pipeline_steps[step_index].key)
                  /\ step_index' = step_index + 1
                  /\ pipeline_pc' = "for"
                  /\ UNCHANGED <<failure, exit_code>>
    /\ UNCHANGED <<MATCH_WORKING_DIR, selected_steps, executed>>
    /\ UNCHANGED <<runVars, reportVars, cliVars, parseVars>>

\* A selected step without a working directory: the with block is not
\* entered and no command runs; `result.stdout` then reads the result of an
\* earlier step, or raises UnboundLocalError when no step has run, which no
\* except clause catches.
UnrunStep ==
    /\ pipeline_pc = "for"
    /\ step_index <= Len(pipeline_steps)
    /\ pipeline_steps[step_index].key \in selected_steps
    /\ ~Truthy(target_working_dir(pipeline_steps[step_index]))
    /\ IF run_result.bound
       THEN /\ reported' = Append(reported, pipeline_steps[step_index].key)
            /\ step_index' = step_index + 1
            /\ UNCHANGED <<pipeline_pc, failure, exit_code>>
       ELSE /\ failure' = [error |-> "UnboundLocalError",
                           key |-> pipeline_steps[step_index].key]
            /\ pipeline_pc' = "raised"
            /\ exit_code' = <<1>>
            /\ UNCHANGED <<reported, step_index>>
    /\ UNCHANGED <<MATCH_WORKING_DIR, selected_steps, run_result, executed, completed>>
    /\ UNCHANGED <<runVars, reportVars, cliVars, parseVars>>

\* After the last step: "--- Pipeline Finished Successfully ---".
FinishPipeline ==
    /\ pipeline_pc = "for"
    /\ step_index > Len(pipeline_steps)
    /\ pipeline_pc' = "finished"
    /\ exit_code' = <<0>>
    /\ UNCHANGED <<MATCH_WORKING_DIR, selected_steps, step_index, run_result, executed,
                   completed, reported, failure>>
    /\ UNCHANGED <<runVars, reportVars, cliVars, parseVars>>

\* run_pipeline has not been called.
NoPipeline ==
    /\ MATCH_WORKING_DIR = NoneDir
    /\ selected_steps = {}
    /\ step_index = 1
    /\ pipeline_pc = "idle"
    /\ run_result = Unbound
    /\ executed = <<>>
    /\ completed = <<>>
    /\ reported = <<>>
    /\ failure = NoFailure
    /\ exit_code = NoExit

----------------------------------------------------------------------------
(* The report run from the two input files *)

Suffixes == {".xlsx", ".XLS", ".csv"}

\* Candidate rows of a match-results file: two cards, two match objects,
\* reference cards and catalogue cards.
LoadMatchRows ==
    [box : {"b1"}, card_ID : {"c1", "c2"}, match_object_ID : {"m1", "m2"},
     card_type : {RefCard, "Monografi"}, match_stat : {"Single"},
     matched_ID : {<<"1">>}, similarity : {<<90>>}]

\* Rows of a ground-truth file.
LoadGtRows ==
    [gt_entry_ID : {"m1", "m2"}, card_ID : {"c1", "c2"},
     gt_card_type : {"Monografi"}, gt_truth_type : {"exact"},
     libris_ID : {<<"1", ";", "2">>}]

File(suffix, readable, content) ==
    [suffix |-> suffix, readable |-> readable, content |-> content]

SampleMatches == <<[box |-> "b1", card_ID |-> "c1", match_object_ID |-> "m1", card_type |-> "Monografi",
                    match_stat |-> "Single", matched_ID |-> <<"1">>, similarity |-> <<90>>]>>

SampleGt == <<[gt_entry_ID |-> "m1", card_ID |-> "c1", gt_card_type |-> "Monografi",
               gt_truth_type |-> "exact", libris_ID |-> <<"1", ";", "2">>]>>

\* No chart document, no completeness table and no spreadsheet yet.
NothingWritten ==
    /\ scores_pdf = NoFile
    /\ evaluated_card_completeness = NoneDF
    /\ report_xlsx = NoFile

InitRun ==
    /\ pc = "load_data"
    /\ matchresults_df = NoneDF
    /\ gt_df = NoneDF
    /\ merged_df = NoneDF
    /\ evaluated_card_types = NoneDF
    /\ evaluated_extracted_occurences = NoneDF
    /\ matches_df = NoneDF
    /\ results_df = NoneDF
    /\ raised = NoError
    /\ printed = <<>>
    /\ NothingWritten
    /\ NoCommandLine
    /\ NoCall
    /\ NoPipeline

\* Readable spreadsheets of every content, and files of every suffix and
\* readability around one sample content.
Init ==
    /\ InitRun
    /\ \/ \E m \in SeqsUpTo(LoadMatchRows, 0, MaxMatchRows),
             g \in SeqsUpTo(LoadGtRows, 0, MaxGtRows) :
              /\ match_results_path = File(".xlsx", TRUE, m)
              /\ ground_truth_path = File(".xlsx", TRUE, g)
       \/ \E ms \in Suffixes, gs \in Suffixes, mr \in BOOLEAN, gr \in BOOLEAN :
              /\ match_results_path = File(ms, mr, SampleMatches)
              /\ ground_truth_path = File(gs, gr, SampleGt)

Next ==
    \/ LoadData
    \/ EvaluateExtractedCardTypes
    \/ EvaluateExtractedOccurences
    \/ MainBranch
    \/ EvaluateMatch
    \/ LabelMatches
    \/ GeneratePdfReport

Spec == Init /\ [][Next]_vars

----------------------------------------------------------------------------
(* The classifier on the working tables of one card *)

\* Candidate rows of the card: rows without a candidate ("No match",
\* "No edition") and real candidates with a right or a wrong matched_ID and a
\* present or a missing similarity.
LabelMatchRows ==
    [box : {"b1"}, card_ID : {"c1"}, match_object_ID : {"m1", "m2"},
     card_type : {"Monografi"},
     match_stat : {"No match", "No edition"}, matched_ID : {NaN}, similarity : {NaNSim}]
    \cup
    [box : {"b1"}, card_ID : {"c1"}, match_object_ID : {"m1", "m2"},
     card_type : {"Monografi"},
     match_stat : {"Multiple"}, matched_ID : {<<"1">>, <<"9">>},
     similarity : {NaNSim, <<70>>, <<90>>}]

\* The ground truth of the two match objects: one with acceptable IDs, one
\* marked "no-match", either way round.
LabelGtProfiles ==
    {[m1 |-> [gt_truth_type |-> "exact", libris_ID |-> <<"1", ",", " ", "2">>],
      m2 |-> [gt_truth_type |-> "no-match", libris_ID |-> NaN]],
     [m1 |-> [gt_truth_type |-> "no-match", libris_ID |-> NaN],
      m2 |-> [gt_truth_type |-> "exact", libris_ID |-> <<"2", ";", "1">>]]}

\* One ground-truth row per match object of the candidate rows.
GtRowsFor(rows, profile) ==
    LET keys == GroupKeys(rows)
    IN  [i \in DOMAIN keys |->
            [gt_entry_ID   |-> keys[i],
             card_ID       |-> "c1",
             gt_card_type  |-> "Monografi",
             gt_truth_type |-> profile[keys[i]].gt_truth_type,
             libris_ID     |-> profile[keys[i]].libris_ID]]

\* The run at the call of evaluate_matches, for the input files m and g.
AtEvaluateMatches(m, g) ==
    /\ pc = "evaluate_match"
    /\ match_results_path = File(".xlsx", TRUE, m)
    /\ ground_truth_path = File(".xlsx", TRUE, g)
    /\ matchresults_df = DF(m)
    /\ gt_df = DF(g)
    /\ merged_df = DF(MergedOf(m, g))
    /\ evaluated_card_types = DF(CardTypesOf(m, g))
    /\ evaluated_extracted_occurences = DF(OccurencesOf(m, g))
    /\ matches_df = NoneDF
    /\ results_df = NoneDF
    /\ raised = NoError
    /\ printed = <<Message("Loaded", "match_results_path"),
                    Message("Loaded", "ground_truth_path")>>
    /\ NothingWritten
    /\ NoCommandLine
    /\ NoCall
    /\ NoPipeline

InitLabel ==
    \E rows \in SeqsUpTo(LabelMatchRows, 1, MaxRows), profile \in LabelGtProfiles :
        AtEvaluateMatches(rows, GtRowsFor(rows, profile))

NextLabel ==
    \/ EvaluateMatch
    \/ LabelMatches

SpecLabel == InitLabel /\ [][NextLabel]_vars

----------------------------------------------------------------------------
(* parse_gt_id_string on every short string *)

\* A digit or two, the two delimiters and the blank.
ParseChars == {"1", "2", ",", ";", " "}

\* No table is loaded and nothing is written.
NoTables ==
    /\ matchresults_df = NoneDF
    /\ gt_df = NoneDF
    /\ merged_df = NoneDF
    /\ evaluated_card_types = NoneDF
    /\ evaluated_extracted_occurences = NoneDF
    /\ matches_df = NoneDF
    /\ results_df = NoneDF
    /\ raised = NoError
    /\ printed = <<>>
    /\ NothingWritten

InitParse ==
    /\ pc = "parse_gt_id_string"
    /\ match_results_path = File(".xlsx", TRUE, SampleMatches)
    /\ ground_truth_path = File(".xlsx", TRUE, SampleGt)
    /\ NoTables
    /\ NoCommandLine
    /\ NoPipeline
    /\ call_id_string \in SeqsUpTo(ParseChars, 0, MaxLen) \cup {NaN}
    /\ call_id_list = NoList

NextParse == ParseGtIdString

SpecParse == InitParse /\ [][NextParse]_vars

----------------------------------------------------------------------------
(* resolve_paths on every command line *)

\* The files a command line of the model can name.
KnownFiles == {<<"work", "run", "outputfile.xlsx">>,
               <<"work", "run", "outputfile-report.json">>,
               <<"work", "m.xlsx">>, <<"work", "s.json">>, <<"work", "gt.xlsx">>}

InitArgs ==
    /\ pc = "resolve_paths"
    /\ match_results_path = File(".xlsx", TRUE, SampleMatches)
    /\ ground_truth_path = File(".xlsx", TRUE, SampleGt)
    /\ NoTables
    /\ NoCall
    /\ NoPipeline
    /\ \E d \in {NonePath, Path(FALSE, <<"run">>)},
          m \in {NonePath, Path(FALSE, <<"m.xlsx">>)},
          t \in {NonePath, Path(TRUE, <<"work", "s.json">>)} :
            args = Namespace(d, m, t)
    /\ \E present \in SUBSET KnownFiles :
            files = [regular |-> present, dirs |-> {<<"work">>, <<"work", "run">>}]
    /\ paths = NoPaths

NextArgs == ResolvePaths

SpecArgs == InitArgs /\ [][NextArgs]_vars

----------------------------------------------------------------------------
(* The whole report on tables that fill every histogram *)

\* A real candidate row of the match-results file.
Candidate(card_ID, match_object_ID, match_stat, matched_ID, similarity) ==
    [box |-> "b1", card_ID |-> card_ID, match_object_ID |-> match_object_ID,
     card_type |-> "Monografi", match_stat |-> match_stat, matched_ID |-> matched_ID,
     similarity |-> similarity]

\* Candidate rows that leave no series of the chart document empty: a right
\* and a wrong match object of every match_stat, and a match object whose
\* right candidate is not the top one. Card c1 holds Single objects only.
FullMatchRows ==
    <<Candidate("c1", "m1", "Single", <<"1">>, <<100>>),
      Candidate("c1", "m2", "Single", <<"9">>, <<60>>),
      Candidate("c2", "m3", "Multiple", <<"1">>, <<90>>),
      Candidate("c2", "m4", "Multiple", <<"9">>, <<90>>),
      Candidate("c2", "m4", "Multiple", <<"1">>, <<70>>),
      Candidate("c2", "m5", "Multiple", <<"9">>, <<80>>),
      Candidate("c2", "m6", "Unqualified", <<"1">>, <<50>>),
      Candidate("c2", "m7", "Unqualified", <<"9">>, <<40>>),
      Candidate("c2", "m8", "Unqualified multiple", <<"1">>, <<50>>),
      Candidate("c2", "m9", "Unqualified multiple", <<"9">>, <<2>>)>>

\* The further rows: of a match object of card c1 or of a new one, of a second
\* box and card type, real candidates or rows without an edition.
ExtraMatchRows ==
    [box : {"b1", "b2"}, card_ID : {"c1", "c3"}, match_object_ID : {"m1", "x1"},
     card_type : {"Monografi", "Serie"}, match_stat : {"Single", "Multiple"},
     matched_ID : {<<"1">>}, similarity : {<<70>>}]
    \cup
    [box : {"b1", "b2"}, card_ID : {"c1", "c3"}, match_object_ID : {"m1", "x1"},
     card_type : {"Monografi", "Serie"}, match_stat : {"No edition"},
     matched_ID : {NaN}, similarity : {NaNSim}]

\* The ground-truth entry of match object k, on card c.
GtEntry(k, c) ==
    [gt_entry_ID |-> k, card_ID |-> c, gt_card_type |-> "Monografi",
     gt_truth_type |-> "exact", libris_ID |-> <<"1", ";", "2">>]

\* One entry per match object of FullMatchRows, and the entry of x1 on card c3
\* when a further row is of x1.
FullGtRows(extra) ==
    <<GtEntry("m1", "c1"), GtEntry("m2", "c1"), GtEntry("m3", "c2"), GtEntry("m4", "c2"),
      GtEntry("m5", "c2"), GtEntry("m6", "c2"), GtEntry("m7", "c2"), GtEntry("m8", "c2"),
      GtEntry("m9", "c2")>>
    \o (IF \E i \in DOMAIN extra : extra[i].match_object_ID = "x1"
        THEN <<GtEntry("x1", "c3")>> ELSE <<>>)

InitReport ==
    \E extra \in SeqsUpTo(ExtraMatchRows, 0, MaxExtra) :
        AtEvaluateMatches(FullMatchRows \o extra, FullGtRows(extra))

NextReport ==
    \/ EvaluateMatch
    \/ LabelMatches
    \/ GeneratePdfReport
    \/ EvaluateCardCompleteness
    \/ GenerateExcelReport

SpecReport == InitReport /\ [][NextReport]_vars

----------------------------------------------------------------------------
(* run_pipeline on every selection of steps *)

\* MATCH_WORKING_DIR: not set, set to nothing, a directory, a directory that
\* does not exist.
WorkingDirs == {NoneDir, Dir("", FALSE), Dir("matcher", TRUE), Dir("nowhere", FALSE)}

\* `args.steps or step_keys`: --steps takes one key or more.
InitPipeline ==
    /\ pc = "run_pipeline"
    /\ match_results_path = File(".xlsx", TRUE, SampleMatches)
    /\ ground_truth_path = File(".xlsx", TRUE, SampleGt)
    /\ NoTables
    /\ NoCommandLine
    /\ NoCall
    /\ MATCH_WORKING_DIR \in WorkingDirs
    /\ selected_steps \in (SUBSET step_keys) \ {{}}
    /\ step_index = 1
    /\ pipeline_pc = "for"
    /\ run_result = Unbound
    /\ executed = <<>>
    /\ completed = <<>>
    /\ reported = <<>>
    /\ failure = NoFailure
    /\ exit_code = NoExit

NextPipeline ==
    \/ SkipStep
    \/ StartStep
    \/ CommandReturns
    \/ UnrunStep
    \/ FinishPipeline

SpecPipeline == InitPipeline /\ [][NextPipeline]_vars

----------------------------------------------------------------------------
(* Vocabulary of the properties *)

Labels == {"Correct", "Secondary correct", "Incorrect", "No edition"}

\* The match groups of the evaluated working table.
Groups == IF IsNone(matches_df) THEN {} ELSE ObjectIDs(matches_df.rows)

Group(k) == GroupOf(matches_df.rows, k)

\* The classifier has returned its Outcome table.
LabelDone == ~IsNone(results_df)

\* The classifier was left by an exception.
LabelRaised == pc = "raised" /\ raised.where = "label_matches"

LabelActed == LabelDone \/ LabelRaised

OutcomesOf(k) == {i \in DOMAIN results_df.rows : results_df.rows[i].match_object_ID = k}

OutcomeFor(k) == results_df.rows[CHOOSE i \in OutcomesOf(k) : TRUE]

RealOnly(G) == \A i \in DOMAIN G : G[i].match_stat \notin {"No match", "No edition"}

\* Row i holds the largest present similarity of G, and no earlier row does.
IsTop(G, i) ==
    /\ G[i].similarity # NaNSim
    /\ \A j \in DOMAIN G :
          G[j].similarity # NaNSim =>
              /\ G[j].similarity[1] <= G[i].similarity[1]
              /\ (j < i => G[j].similarity[1] < G[i].similarity[1])

\* Row i is a locally correct row of G whose similarity no other locally
\* correct row exceeds.
IsBestCorrect(G, i) ==
    /\ G[i].match_result = "Correct"
    /\ \A j \in DOMAIN G :
          (G[j].match_result = "Correct" /\ G[j].similarity # NaNSim) =>
              (G[i].similarity # NaNSim /\ G[j].similarity[1] <= G[i].similarity[1])

NumCorrect(G) == Cardinality({i \in DOMAIN G : G[i].match_result = "Correct"})

\* label_matches did not raise on the group k.
Returned(k) == LabelRaised => raised.group # k

\* The Outcome table, once returned, holds a record for the group k.
Recorded(k) == LabelDone => OutcomesOf(k) # {}

----------------------------------------------------------------------------
(* C1: a group with a "No match" row receives the local evaluation of that
   row as its Outcome, whatever its other rows are and wherever the row
   stands in the group. *)
C1_NoMatchRowDecides ==
    LabelActed =>
        \A k \in Groups : \A i \in DOMAIN Group(k) :
            Group(k)[i].match_stat = "No match" =>
                Returned(k) /\ Recorded(k) /\ (LabelDone =>
                    LET o == OutcomeFor(k) IN
                    /\ o.result = Group(k)[i].match_result
                    /\ o.result = (IF Group(k)[i].gt_truth_type = "no-match"
                                   THEN "Correct" ELSE "Incorrect"))

(* C2: the classifier produces exactly one Outcome per match_object_ID of
   the working table, each with one of the four labels. *)
C2_OneOutcomePerGroup ==
    LabelActed =>
        /\ LabelDone
        /\ \A k \in Groups : Cardinality(OutcomesOf(k)) = 1
        /\ \A i \in DOMAIN results_df.rows :
              /\ results_df.rows[i].match_object_ID \in Groups
              /\ results_df.rows[i].result \in Labels

(* C3: in a group of real candidates whose top candidate is locally
   Incorrect while another row is locally Correct, the Outcome is
   "Secondary correct", its winner is the locally-Correct row of greatest
   similarity and correct_count counts the locally-Correct rows. *)
C3_SecondaryCorrect ==
    LabelActed =>
        \A k \in Groups : \A i \in DOMAIN Group(k) :
            (/\ RealOnly(Group(k))
             /\ IsTop(Group(k), i)
             /\ Group(k)[i].match_result # "Correct"
             /\ NumCorrect(Group(k)) > 0) =>
                Returned(k) /\ Recorded(k) /\ (LabelDone =>
                    LET o == OutcomeFor(k) IN
                    /\ o.result = "Secondary correct"
                    /\ \E j \in DOMAIN Group(k) :
                          /\ IsBestCorrect(Group(k), j)
                          /\ o.matched_ID = Group(k)[j].matched_ID
                          /\ o.matched_similarity = Group(k)[j].similarity
                    /\ o.correct_count = <<NumCorrect(Group(k))>>)

(* C4: in a group of real candidates whose top candidate is locally
   Correct, the Outcome is "Correct" and its winner is the top candidate. *)
C4_TopCorrect ==
    LabelActed =>
        \A k \in Groups : \A i \in DOMAIN Group(k) :
            (/\ RealOnly(Group(k))
             /\ IsTop(Group(k), i)
             /\ Group(k)[i].match_result = "Correct") =>
                Returned(k) /\ Recorded(k) /\ (LabelDone =>
                    LET o == OutcomeFor(k) IN
                    /\ o.result = "Correct"
                    /\ o.matched_ID = Group(k)[i].matched_ID
                    /\ o.matched_similarity = Group(k)[i].similarity)

C4_Witness ==
    /\ LabelDone
    /\ \E k \in Groups : \E i \in DOMAIN Group(k) :
          /\ RealOnly(Group(k))
          /\ Len(Group(k)) > 1
          /\ i > 1
          /\ IsTop(Group(k), i)
          /\ Group(k)[i].match_result = "Correct"
          /\ OutcomeFor(k).result = "Correct"

(* C5: in a group of real candidates none of whose matched_IDs is in the
   parsed ground-truth ID list, the Outcome is "Incorrect" and its winner is
   the candidate of greatest similarity. *)
C5_NoneCorrect ==
    LabelActed =>
        \A k \in Groups :
            (/\ RealOnly(Group(k))
             /\ \A i \in DOMAIN Group(k) :
                   ~InList(Group(k)[i].matched_ID,
                           parse_gt_id_string(Group(k)[i].libris_ID))) =>
                Returned(k) /\ Recorded(k) /\ (LabelDone =>
                    LET o == OutcomeFor(k) IN
                    /\ o.result = "Incorrect"
                    /\ \E i \in DOMAIN Group(k) :
                          /\ \A j \in DOMAIN Group(k) :
                                Group(k)[j].similarity # NaNSim =>
                                    /\ Group(k)[i].similarity # NaNSim
                                    /\ Group(k)[j].similarity[1] <= Group(k)[i].similarity[1]
                          /\ o.matched_ID = Group(k)[i].matched_ID
                          /\ o.matched_similarity = Group(k)[i].similarity)

(* C6: a group without a "No match" row and with a "No edition" row has the
   Outcome "No edition" and no winner. *)
C6_NoEdition ==
    LabelActed =>
        \A k \in Groups :
            (/\ \A i \in DOMAIN Group(k) : Group(k)[i].match_stat # "No match"
             /\ \E i \in DOMAIN Group(k) : Group(k)[i].match_stat = "No edition") =>
                Returned(k) /\ Recorded(k) /\ (LabelDone =>
                    LET o == OutcomeFor(k) IN
                    /\ o.result = "No edition"
                    /\ o.matched_ID = NaN
                    /\ o.matched_similarity = NaNSim)

C6_Witness ==
    /\ LabelDone
    /\ \E k \in Groups :
          /\ \E i \in DOMAIN Group(k) : Group(k)[i].match_stat = "No edition"
          /\ \E i \in DOMAIN Group(k) : Group(k)[i].match_stat = "Multiple"
          /\ OutcomeFor(k).result = "No edition"
    /\ \E k \in Groups :
          /\ \A i \in DOMAIN Group(k) : Group(k)[i].match_stat = "No edition"
          /\ OutcomeFor(k).result = "No edition"

(* C7: a row is locally Correct iff it is a "No match" row of a "no-match"
   ground truth or a real candidate whose matched_ID is in the parsed
   ground-truth ID list; a "No edition" row is labelled "No edition"; every
   other row is Incorrect. *)
C7_LocalEvaluation ==
    ~IsNone(matches_df) =>
        \A i \in DOMAIN matches_df.rows :
            LET r == matches_df.rows[i]
                a == r.match_stat = "No match" /\ r.gt_truth_type = "no-match"
                b == /\ r.match_stat \notin {"No match", "No edition"}
                     /\ InList(r.matched_ID, parse_gt_id_string(r.libris_ID))
            IN  /\ r.match_result = "Correct" <=> (a \/ b)
                /\ r.match_stat = "No edition" => r.match_result = "No edition"
                /\ (~(a \/ b) /\ r.match_stat # "No edition") => r.match_result = "Incorrect"

C7_Witness ==
    /\ ~IsNone(matches_df)
    /\ \E i, j, l \in DOMAIN matches_df.rows :
          /\ matches_df.rows[i].match_stat = "No match"
          /\ matches_df.rows[i].match_result = "Correct"
          /\ matches_df.rows[j].match_stat = "No match"
          /\ matches_df.rows[j].match_result = "Incorrect"
          /\ matches_df.rows[l].match_stat = "Multiple"
          /\ matches_df.rows[l].match_result = "Correct"

----------------------------------------------------------------------------
(* Vocabulary of the Loader's properties *)

\* load_data has returned the three tables of two non-empty inputs.
Loaded == ~IsNone(merged_df)

ObjectsOfCard(c) ==
    {matchresults_df.rows[i].match_object_ID :
        i \in {j \in RowsOfCard(matchresults_df.rows, c) :
                  matchresults_df.rows[j].card_type # RefCard}}

EntriesOfCard(c) ==
    {gt_df.rows[i].gt_entry_ID : i \in RowsOfCard(gt_df.rows, c)}

\* The card passes the cardinality filter.
Kept(c) ==
    /\ ObjectsOfCard(c) # {}
    /\ Cardinality(ObjectsOfCard(c)) = Cardinality(EntriesOfCard(c))

InputCards == CardIDs(matchresults_df.rows) \cup CardIDs(gt_df.rows)

\* The candidate columns of a row of the working table.
CandidateOf(r) ==
    [box |-> r.box, card_ID |-> r.card_ID, match_object_ID |-> r.match_object_ID,
     card_type |-> r.card_type, match_stat |-> r.match_stat,
     matched_ID |-> r.matched_ID, similarity |-> r.similarity]

(* C8: after the Loader's filters and join every match object of a kept
   card is joined to exactly one ground-truth entry, the one of its own ID,
   and every ground-truth entry of a kept card to exactly one match object:
   none of them is missing from the working table. *)
C8_AlignedOneToOne ==
    Loaded =>
        \A c \in InputCards : Kept(c) =>
            /\ \A k \in ObjectsOfCard(c) :
                  {merged_df.rows[i].gt_entry_ID :
                      i \in {j \in DOMAIN merged_df.rows :
                                merged_df.rows[j].match_object_ID = k}} = {k}
            /\ \A e \in EntriesOfCard(c) :
                  {merged_df.rows[i].match_object_ID :
                      i \in {j \in DOMAIN merged_df.rows :
                                merged_df.rows[j].gt_entry_ID = e}} = {e}

(* C9: every row of the working table is a candidate row that is no
   reference card and whose card has as many distinct match objects, the
   reference-card rows removed, as distinct ground-truth entries; a card
   whose counts differ or that is in one input only contributes no row. *)
C9_OnlyKeptCards ==
    Loaded =>
        \A i \in DOMAIN merged_df.rows :
            LET r == merged_df.rows[i]
            IN  /\ r.card_type # RefCard
                /\ \E j \in DOMAIN matchresults_df.rows :
                      matchresults_df.rows[j] = CandidateOf(r)
                /\ Kept(r.card_ID)
                /\ Kept(r.card_ID_gt)

C9_Witness ==
    /\ Loaded
    /\ merged_df.rows # <<>>
    /\ \E j \in DOMAIN matchresults_df.rows : matchresults_df.rows[j].card_type = RefCard
    /\ \E c \in CardIDs(matchresults_df.rows) \cap CardIDs(gt_df.rows) : ~Kept(c)

\* Both files were read and one of the two tables has no row.
EmptyInput ==
    /\ IsExcel(match_results_path) /\ match_results_path.readable
    /\ IsExcel(ground_truth_path) /\ ground_truth_path.readable
    /\ (match_results_path.content = <<>> \/ ground_truth_path.content = <<>>)

(* C10: with an input table empty after load, the Loader signals no data
   and the run skips every downstream stage and ends as a normal skip,
   without an exception. *)
C10_EmptyInputSkips ==
    (EmptyInput /\ pc # "load_data") =>
        /\ IsNone(merged_df)
        /\ raised.error = "none"
        /\ IsNone(evaluated_card_types)
        /\ IsNone(evaluated_extracted_occurences)
        /\ IsNone(matches_df)
        /\ IsNone(results_df)

----------------------------------------------------------------------------
(* The run without data, and the load errors *)

\* Both inputs were loaded with rows and no row is left after the filters and
\* the join.
EmptyJoin == Loaded /\ merged_df.rows = <<>>

NoArtifact == ~scores_pdf.written /\ ~report_xlsx.written

(* C11: when both inputs load with rows and no row survives the filters and
   the join, the run raises no exception, goes from the aggregators straight
   to its end, where it has printed "No data to evaluate.", and writes neither
   the chart document nor the spreadsheet. *)
C11_EmptyJoinSkips ==
    EmptyJoin =>
        /\ raised.error = "none"
        /\ NoArtifact
        /\ pc \in {"evaluate_extracted_card_types", "evaluate_extracted_occurences",
                   "branch", "done"}
        /\ pc = "done" =>
              \E i \in DOMAIN printed : printed[i].text = "No data to evaluate."

C11_Witness ==
    /\ EmptyJoin
    /\ pc = "done"
    /\ \E i \in DOMAIN matchresults_df.rows : matchresults_df.rows[i].card_type # RefCard

\* The input paths that load_data cannot load: a path whose suffix is not an
\* Excel suffix (the ground-truth path is looked at after the matches path
\* passed), or a file that cannot be read.
Offending ==
    IF ~IsExcel(match_results_path) THEN {"match_results_path"}
    ELSE (IF ~match_results_path.readable THEN {"match_results_path"} ELSE {})
         \cup (IF ~IsExcel(ground_truth_path) \/ ~ground_truth_path.readable
               THEN {"ground_truth_path"} ELSE {})

\* The path `name` is in a printed load error or in the exception's message.
Reported(name) ==
    \/ \E i \in DOMAIN printed :
          printed[i].text = "Error loading" /\ printed[i].path = name
    \/ "message" \in DOMAIN raised /\ raised.message.path = name

(* C12: after a load error (a path that is no .xlsx/.xls path, or a file that
   cannot be read) the run does not reach its normal end, every error has
   been reported with the path it is about, and neither the chart document
   nor the spreadsheet is written. *)
C12_LoadErrorsFatal ==
    (Offending # {} /\ pc # "load_data") =>
        /\ pc \in {"evaluate_extracted_card_types", "raised"}
        /\ \A name \in Offending : Reported(name)
        /\ NoArtifact

----------------------------------------------------------------------------
(* The aggregators and the spreadsheet *)

RECURSIVE SumOver(_, _)
SumOver(f, S) ==
    IF S = {} THEN 0
    ELSE LET x == CHOOSE y \in S : TRUE IN f[x] + SumOver(f, S \ {x})

(* C13: the completeness table has exactly one row per card of the working
   table, and the row of a card says "Complete" if every row of the working
   table with that card_ID has match_stat "Single" and "Incomplete"
   otherwise. *)
C13_CompletenessPerRow ==
    ~IsNone(evaluated_card_completeness) =>
        LET t    == matches_df.rows
            comp == evaluated_card_completeness.rows
        IN  /\ \A c \in CardIDs(t) :
                  Cardinality({i \in DOMAIN comp : comp[i].card_ID = c}) = 1
            /\ \A i \in DOMAIN comp :
                  /\ comp[i].card_ID \in CardIDs(t)
                  /\ comp[i].completeness =
                        IF \A j \in RowsOfCard(t, comp[i].card_ID) : t[j].match_stat = "Single"
                        THEN "Complete" ELSE "Incomplete"

\* The cards with a candidate row that is no reference card.
CatalogueCards == {matchresults_df.rows[i].card_ID :
                      i \in {j \in DOMAIN matchresults_df.rows :
                                matchresults_df.rows[j].card_type # RefCard}}

(* C14: the occurrence table has exactly one row per card with a candidate
   row that is no reference card; its match_count is the number of distinct
   match_object_IDs among the card's rows whose match_stat is not
   "No edition", and its gt_count the number of ground-truth rows of the
   card (0 when there is none). *)
C14_OccurenceCounts ==
    ~IsNone(evaluated_extracted_occurences) =>
        LET m   == matchresults_df.rows
            g   == gt_df.rows
            occ == evaluated_extracted_occurences.rows
        IN  /\ \A c \in CatalogueCards :
                  Cardinality({i \in DOMAIN occ : occ[i].card_ID = c}) = 1
            /\ \A i \in DOMAIN occ :
                  /\ occ[i].card_ID \in CatalogueCards
                  /\ occ[i].match_count =
                        Cardinality({m[j].match_object_ID :
                                        j \in {k \in RowsOfCard(m, occ[i].card_ID) :
                                                  m[k].match_stat # "No edition"}})
                  /\ occ[i].gt_count = Cardinality(RowsOfCard(g, occ[i].card_ID))

(* C15: in the spreadsheet the supports of the classes of the card-type
   report sum to the number of distinct cards of the card-type table, and
   the supports of the occurrence report to the number of distinct cards of
   the occurrence table. *)
C15_SupportSums ==
    report_xlsx.written =>
        /\ SumOver(report_xlsx.card_types_support, DOMAIN report_xlsx.card_types_support)
              = Cardinality(CardIDs(evaluated_card_types.rows))
        /\ SumOver(report_xlsx.occurences_support, DOMAIN report_xlsx.occurences_support)
              = Cardinality(CardIDs(evaluated_extracted_occurences.rows))

\* The Outcomes a block of the statistics sheet is about.
OutcomesOfBlock(b) ==
    {i \in DOMAIN results_df.rows :
        /\ b.card_filter # "All" => results_df.rows[i].card_type = b.card_filter
        /\ b.box_filter # "All" => results_df.rows[i].box = b.box_filter}

\* How many Outcomes of block b have match_stat `stat` and result `result`.
Tally(b, stat, result) ==
    Cardinality({i \in OutcomesOfBlock(b) :
                    /\ results_df.rows[i].match_stat = stat
                    /\ results_df.rows[i].result = result})

(* C16: in every block of the statistics sheet and for every observed
   match_stat, the Error rate is (Incorrect + Secondary correct) /
   (Correct + Incorrect + Secondary correct) of the block's Outcomes of that
   match_stat, "No edition" left out, and NaN when that total is 0, also in a
   block without Outcomes. *)
C16_ErrorRate ==
    report_xlsx.written =>
        \A f \in DOMAIN report_xlsx.statistics :
            LET b == report_xlsx.statistics[f]
            IN  /\ DOMAIN b.table.error_rate = {results_df.rows[i].match_stat :
                                                    i \in DOMAIN results_df.rows}
                /\ \A stat \in DOMAIN b.table.error_rate :
                      LET wrong == Tally(b, stat, "Incorrect")
                                   + Tally(b, stat, "Secondary correct")
                          total == Tally(b, stat, "Correct") + wrong
                          rate  == b.table.error_rate[stat]
                      IN  IF total = 0 THEN rate = NaNRate
                          ELSE /\ rate # NaNRate
                               /\ rate[2] # 0
                               /\ rate[1] * total = wrong * rate[2]

C16_Witness ==
    /\ report_xlsx.written
    /\ \E f \in DOMAIN report_xlsx.statistics :
          OutcomesOfBlock(report_xlsx.statistics[f]) = {}
    /\ \E i \in DOMAIN results_df.rows : results_df.rows[i].result = "No edition"
    /\ \E f \in DOMAIN report_xlsx.statistics :
          report_xlsx.statistics[f].table.error_rate["Multiple"] = <<2, 3>>

(* C17: in the statistics sheet the cells of two different blocks are
   disjoint, each block being its label row and, below it, its cross-tab with
   the header row, the index column, one column per observed result and the
   Error rate column. *)
C17_BlocksDisjoint ==
    report_xlsx.written =>
        LET blocks == report_xlsx.statistics
            nstats == Cardinality({results_df.rows[i].match_stat :
                                      i \in DOMAIN results_df.rows})
            nresults == Cardinality({results_df.rows[i].result :
                                        i \in DOMAIN results_df.rows})
        IN  /\ \A f \in DOMAIN blocks :
                  Cardinality(blocks[f].cells) = 1 + (1 + nstats) * (1 + nresults + 1)
            /\ \A f \in DOMAIN blocks : \A g \in DOMAIN blocks :
                  f # g => blocks[f].cells \cap blocks[g].cells = {}

C17_Witness ==
    /\ report_xlsx.written
    /\ Cardinality(DOMAIN report_xlsx.statistics) = 9
    /\ Cardinality({results_df.rows[i].match_stat : i \in DOMAIN results_df.rows}) = 5


----------------------------------------------------------------------------
(* parse_gt_id_string *)

Delimiters == {",", ";"}

\* The text that parse_gt_id_string was called with.
CallText == Str(call_id_string)

\* s with the delimiter at position i replaced by the other one.
SwapAt(s, i) == [s EXCEPT ![i] = IF @ = "," THEN ";" ELSE ","]

\* s[a..b] holds no delimiter.
NoDelimiter(s, a, b) == \A j \in a..b : s[j] \notin Delimiters

\* s[a..b] holds blanks only.
Blank(s, a, b) == \A j \in a..b : IsSpace(s[j])

\* a..b is an entry of s: it starts and ends with a character that is no blank,
\* holds no delimiter, and only blanks separate it from the delimiters (or the
\* ends of s) around it.
IsEntry(s, a, b) ==
    /\ a <= b
    /\ ~IsSpace(s[a]) /\ ~IsSpace(s[b])
    /\ NoDelimiter(s, a, b)
    /\ \A j \in 1..(a - 1) : NoDelimiter(s, j, a - 1) => IsSpace(s[j])
    /\ \A j \in (b + 1)..Len(s) : NoDelimiter(s, b + 1, j) => IsSpace(s[j])

Entries(s) == {e \in (DOMAIN s) \X (DOMAIN s) : IsEntry(s, e[1], e[2])}

\* The entries of s from position `from` on, in the order of s.
RECURSIVE EntriesInOrder(_, _)
EntriesInOrder(s, from) ==
    IF \A e \in Entries(s) : e[1] < from THEN <<>>
    ELSE LET e == CHOOSE x \in Entries(s) :
                      x[1] >= from /\ \A y \in Entries(s) : y[1] >= from => x[1] <= y[1]
         IN  <<SubSeq(s, e[1], e[2])>> \o EntriesInOrder(s, e[2] + 1)

(* C19: parse_gt_id_string returns the entries of its argument between
   commas and semicolons, trimmed, without the empty ones and in their
   order: no returned entry is empty or starts or ends with a blank,
   replacing a comma by a semicolon or a semicolon by a comma does not change
   the result, and an argument of blanks and delimiters only gives the empty
   list. *)
C19_ParsedList ==
    call_id_list.returned =>
        LET out == call_id_list.value
        IN  /\ out = EntriesInOrder(CallText, 1)
            /\ \A i \in DOMAIN out :
                  /\ out[i] # <<>>
                  /\ ~IsSpace(out[i][1])
                  /\ ~IsSpace(out[i][Len(out[i])])
            /\ \A i \in DOMAIN CallText :
                  CallText[i] \in Delimiters =>
                      parse_gt_id_string(SwapAt(CallText, i)) = out
            /\ (\A i \in DOMAIN CallText : CallText[i] \in Delimiters \cup {" "})
                  => out = <<>>

C19_Witness ==
    /\ call_id_list.returned
    /\ call_id_string = <<"1", ",", " ", "2", ";">>
    /\ call_id_list.value = <<<<"1">>, <<"2">>>>

----------------------------------------------------------------------------
(* resolve_paths *)

\* The command line names no match directory and gives a matches file and a
\* settings file that exist, next to the ground-truth file.
ExplicitForm ==
    /\ Falsy(args.match_directory)
    /\ ~Falsy(args.matches_file) /\ IsFile(args.matches_file, files)
    /\ ~Falsy(args.settings_file) /\ IsFile(args.settings_file, files)
    /\ IsFile(args.ground_truth_file, files)

(* C20: without a match directory, when the matches file and the settings
   file are both given and exist, resolve_paths returns these two paths and
   does not raise. *)
C20_ExplicitFormResolves ==
    (ExplicitForm /\ pc # "resolve_paths") =>
        /\ raised.error = "none"
        /\ paths.resolved
        /\ paths.matches_path = Resolve(args.matches_file)
        /\ paths.settings_path = Resolve(args.settings_file)

----------------------------------------------------------------------------
(* C22: missing values of a row do not abort the classification: on a group
   of real candidates in which some or all rows have no similarity,
   label_matches returns an Outcome instead of raising. *)
C22_MissingValuesTolerated ==
    LabelActed =>
        \A k \in Groups :
            (/\ RealOnly(Group(k))
             /\ \E i \in DOMAIN Group(k) : Group(k)[i].similarity = NaNSim) =>
                Returned(k) /\ Recorded(k)

----------------------------------------------------------------------------
(* C24: when several rows of a group of real candidates share the largest
   similarity, the top candidate is the first of them in the order of the
   group, and the Outcome is decided from the local evaluation of that row:
   "Correct" exactly when it is locally Correct, and otherwise "Secondary
   correct" or "Incorrect" as some or no row is locally Correct. *)
C24_TieTakesFirst ==
    LabelDone =>
        \A k \in Groups : \A i, j \in DOMAIN Group(k) :
            (/\ RealOnly(Group(k))
             /\ IsTop(Group(k), i)
             /\ j > i
             /\ Group(k)[j].similarity = Group(k)[i].similarity) =>
                LET o == OutcomeFor(k) IN
                /\ o.result = "Correct" <=> Group(k)[i].match_result = "Correct"
                /\ o.result = "Secondary correct" <=>
                      /\ Group(k)[i].match_result # "Correct"
                      /\ NumCorrect(Group(k)) > 0
                /\ o.result # "Secondary correct" =>
                      /\ o.matched_ID = Group(k)[i].matched_ID
                      /\ o.matched_similarity = Group(k)[i].similarity

\* Two tied rows, the wrong one first: the other order would be "Correct".
C24_Witness ==
    /\ LabelDone
    /\ \E k \in Groups : \E i, j \in DOMAIN Group(k) :
          /\ RealOnly(Group(k))
          /\ IsTop(Group(k), i)
          /\ j > i
          /\ Group(k)[j].similarity = Group(k)[i].similarity
          /\ Group(k)[i].match_result = "Incorrect"
          /\ Group(k)[j].match_result = "Correct"
          /\ OutcomeFor(k).result = "Secondary correct"

----------------------------------------------------------------------------
(* C25: an Outcome's correct_count is missing exactly when its group has a
   "No match" or a "No edition" row; otherwise it is the number of locally
   Correct rows of the group, at least 1 when the result is "Correct" or
   "Secondary correct" and 0 when it is "Incorrect". *)
C25_CorrectCount ==
    LabelDone =>
        \A k \in Groups :
            LET o == OutcomeFor(k) IN
            /\ o.correct_count = NoCount <=>
                  (HasStat(Group(k), "No match") \/ HasStat(Group(k), "No edition"))
            /\ o.correct_count # NoCount =>
                  /\ o.correct_count = <<NumCorrect(Group(k))>>
                  /\ o.result \in {"Correct", "Secondary correct"} =>
                        o.correct_count[1] >= 1
                  /\ o.result = "Incorrect" => o.correct_count[1] = 0

C25_Witness ==
    /\ LabelDone
    /\ \E k \in Groups :
          /\ HasStat(Group(k), "No match")
          /\ OutcomeFor(k).correct_count = NoCount
    /\ \E k \in Groups :
          /\ RealOnly(Group(k))
          /\ OutcomeFor(k).result = "Secondary correct"
          /\ OutcomeFor(k).correct_count = <<1>>

----------------------------------------------------------------------------
(* C28: the ranked lists matched_IDs and similarity_scores of an Outcome hold
   one entry per row of its group (an empty entry for a missing value), in
   the order of non-increasing similarity with the missing similarities
   last, and entry i of both lists is taken from the same row. *)
ListEntries(text) == [i \in DOMAIN Split(text, ",") |-> Strip(Split(text, ",")[i])]

IdEntry(id) == IF id = NaN THEN <<>> ELSE id

SimilarityEntry(sim) == IF sim = NaNSim THEN <<>> ELSE Format4f(sim)

\* The similarity a does not stand after the similarity b in a ranking.
RanksNoLower(a, b) == b = NaNSim \/ (a # NaNSim /\ a[1] >= b[1])

\* The similarity that the entry stands for.
SimilarityOf(G, entry) ==
    IF entry = <<>> THEN NaNSim
    ELSE G[CHOOSE i \in DOMAIN G : SimilarityEntry(G[i].similarity) = entry].similarity

\* The pairs of entries of the two lists are the pairs of values of the rows
\* of the group, each as often as it occurs among the rows: there is a
\* one-to-one assignment of list positions to rows.
C28_RankedLists ==
    LabelDone =>
        \A k \in Groups :
            LET G == Group(k)
                ids == ListEntries(OutcomeFor(k).matched_IDs)
                sims == ListEntries(OutcomeFor(k).similarity_scores)
                rows == [i \in DOMAIN G |->
                            <<IdEntry(G[i].matched_ID), SimilarityEntry(G[i].similarity)>>]
            IN  /\ Len(ids) = Len(G)
                /\ Len(sims) = Len(G)
                /\ \A i \in DOMAIN G :
                      Cardinality({j \in DOMAIN G : <<ids[j], sims[j]>> = rows[i]})
                          = Cardinality({j \in DOMAIN G : rows[j] = rows[i]})
                /\ \A i, j \in DOMAIN G :
                      i < j => RanksNoLower(SimilarityOf(G, sims[i]), SimilarityOf(G, sims[j]))

\* Three rows in the order missing, 0.70, 0.90 are listed as 0.90, 0.70, "".
C28_Witness ==
    /\ LabelDone
    /\ \E k \in Groups :
          /\ Len(Group(k)) = 3
          /\ RealOnly(Group(k))
          /\ Group(k)[1].similarity = NaNSim
          /\ Group(k)[2].similarity = <<70>>
          /\ Group(k)[3].similarity = <<90>>
          /\ Group(k)[2].matched_ID # Group(k)[3].matched_ID
          /\ ListEntries(OutcomeFor(k).similarity_scores) =
                <<SimilarityEntry(<<90>>), SimilarityEntry(<<70>>), <<>>>>
          /\ ListEntries(OutcomeFor(k).matched_IDs) =
                <<Group(k)[3].matched_ID, Group(k)[2].matched_ID, Group(k)[1].matched_ID>>

----------------------------------------------------------------------------
(* Vocabulary of the chart document *)

\* The histograms of the chart document: page and place on the page.
Plots ==
    IF ~scores_pdf.written THEN {}
    ELSE {pl \in (DOMAIN scores_pdf.pages) \X (1..4) : pl[2] \in DOMAIN scores_pdf.pages[pl[1]]}

Plot(pl) == scores_pdf.pages[pl[1]][pl[2]]

BothSeries(h) == h.correct \o h.incorrect

NumBins(h) == Len(h.bins) - 1

\* The number of scores of the series that lie in bin k of h, the last bin
\* with its upper edge.
InBin(h, series, k) ==
    Cardinality({i \in DOMAIN series :
        /\ h.bins[k] <= InEdgeUnits(series[i])
        /\ InEdgeUnits(series[i]) <= h.bins[k + 1]
        /\ InEdgeUnits(series[i]) = h.bins[k + 1] => k = NumBins(h)})

\* The bins of h run from the least to the largest score of both series,
\* widened by 5% of that range at either end and cut to [0, 1]; with the
\* scores in hundredths and the edges in 1/780 of a hundredth.
PaddedRange(h) ==
    LET lo == ArrayMin(BothSeries(h))
        hi == ArrayMax(BothSeries(h))
    IN  /\ h.bins[1] = Larger(0, 780 * lo - 39 * (hi - lo))
        /\ h.bins[Len(h.bins)] = Smaller(78000, 780 * hi + 39 * (hi - lo))
        /\ \A k \in 1..(Len(h.bins) - 1) : h.bins[k] <= h.bins[k + 1]

SameBins(h) ==
    /\ Len(h.correct_counts) = NumBins(h)
    /\ Len(h.incorrect_counts) = NumBins(h)
    /\ \A k \in 1..NumBins(h) :
          /\ h.correct_counts[k] = InBin(h, h.correct, k)
          /\ h.incorrect_counts[k] = InBin(h, h.incorrect, k)

----------------------------------------------------------------------------
(* C26: the histogram of every slice has exactly 40 bins, which span the
   range from the least to the largest score of both series, padded by 5% of
   that range and clipped to [0, 1]; the correct and the incorrect scores are
   counted over the same bins. *)
C26_FortyBins ==
    \A pl \in Plots :
        /\ NumBins(Plot(pl)) = 40
        /\ PaddedRange(Plot(pl))
        /\ SameBins(Plot(pl))

----------------------------------------------------------------------------
(* C27: a reverse cumulative curve gives, for every bin, 100 times the
   number of the scores of its series that lie at or above the lower edge of
   the bin, divided by N: the number of scores of the series in "series"
   mode, of both series in "total" mode. So a curve never rises, the curve of
   a series starts at 100 in "series" mode, and the first values of the two
   curves add up to 100 in "total" mode. *)
AtOrAbove(h, series, k) ==
    Cardinality({i \in DOMAIN series : InEdgeUnits(series[i]) >= h.bins[k]})

Normaliser(h, series) ==
    IF h.cumulative_mode = "total" THEN Len(BothSeries(h)) ELSE Len(series)

\* The fraction p is 100 * count / N.
IsPercent(p, count, N) == p[2] > 0 /\ N > 0 /\ p[1] * N = 100 * count * p[2]

CurveOf(h, series, curve) ==
    /\ Len(curve) = NumBins(h)
    /\ \A k \in DOMAIN curve : IsPercent(curve[k], AtOrAbove(h, series, k), Normaliser(h, series))
    /\ \A k \in 1..(Len(curve) - 1) :
          curve[k][1] * curve[k + 1][2] >= curve[k + 1][1] * curve[k][2]

C27_ReverseCumulative ==
    \A pl \in Plots :
        LET h == Plot(pl)
            c == h.correct_cumulative
            i == h.incorrect_cumulative
        IN  /\ CurveOf(h, h.correct, c)
            /\ CurveOf(h, h.incorrect, i)
            /\ h.cumulative_mode = "series" =>
                  /\ c[1][1] = 100 * c[1][2]
                  /\ i[1][1] = 100 * i[1][2]
            /\ h.cumulative_mode = "total" =>
                  c[1][1] * i[1][2] + i[1][1] * c[1][2] = 100 * c[1][2] * i[1][2]

\* A curve of a series with scores in two bins, which takes three values, and
\* a "total" histogram both of whose curves start below 100.
C27_Witness ==
    /\ \E pl \in Plots :
          /\ Plot(pl).cumulative_mode = "series"
          /\ Cardinality({Plot(pl).correct_cumulative[k] :
                             k \in DOMAIN Plot(pl).correct_cumulative}) = 3
    /\ \E pl \in Plots :
          /\ Plot(pl).cumulative_mode = "total"
          /\ Plot(pl).correct_cumulative[1][1] < 100 * Plot(pl).correct_cumulative[1][2]
          /\ Plot(pl).incorrect_cumulative[1][1] < 100 * Plot(pl).incorrect_cumulative[1][2]
          /\ Plot(pl).incorrect_cumulative[1][1] > 0

----------------------------------------------------------------------------
(* C23: a histogram one of whose series is empty is drawn as an empty
   category: for every non-empty working table evaluate_matches returns,
   having written the chart document with one page per entry of the list of
   slice groups. *)
PdfActed == ~IsNone(results_df) /\ pc # "generate_pdf_report"

C23_EmptySlicePlotted ==
    PdfActed =>
        /\ raised = NoError
        /\ scores_pdf.written
        /\ Len(scores_pdf.pages) =
              Len(SimilarityScoresList(matches_df.rows, results_df.rows))

----------------------------------------------------------------------------
(* C29: where every ground-truth entry is one row, every card that the
   cardinality filter of load_data keeps has equal match_count and gt_count
   in the occurrence table. *)
EntriesAreRows ==
    \A i, j \in DOMAIN gt_df.rows :
        gt_df.rows[i].gt_entry_ID = gt_df.rows[j].gt_entry_ID => i = j

KeptCards == MatchingCards(WithoutReferences(matchresults_df.rows), gt_df.rows)

C29_KeptOnDiagonal ==
    (~IsNone(evaluated_extracted_occurences) /\ EntriesAreRows) =>
        \A i \in DOMAIN evaluated_extracted_occurences.rows :
            LET o == evaluated_extracted_occurences.rows[i]
            IN  o.card_ID \in KeptCards => o.match_count = o.gt_count

----------------------------------------------------------------------------
(* Vocabulary of the step runner *)

\* The place of the step with this key in the list of pipeline steps.
IndexOf(key) == CHOOSE n \in 1..Len(pipeline_steps) : pipeline_steps[n].key = key

CommandReturned(key, returncode) ==
    \E c \in DOMAIN completed :
        completed[c].key = key /\ completed[c].returncode = returncode

\* A command returned a code other than 0, or a command was not found.
StepFailed ==
    \/ \E c \in DOMAIN completed : completed[c].returncode # 0
    \/ failure.error \in {"CalledProcessError", "FileNotFoundError"}

----------------------------------------------------------------------------
(* C21: run_pipeline starts commands of selected steps only, in the order of
   the list of pipeline steps and one at a time (a command is started when
   every command started before has returned); once a command has returned
   a code other than 0 or was not found, the orchestrator has exited with
   code 1 and no further command is started; and "Pipeline Finished
   Successfully" is reached only if no step has failed. *)
StartedInOrder ==
    /\ \A a \in DOMAIN executed : executed[a] \in selected_steps
    /\ \A a, b \in DOMAIN executed : a < b => IndexOf(executed[a]) < IndexOf(executed[b])
    /\ \A a \in DOMAIN executed :
          a < Len(executed) => completed[a].key = executed[a] /\ completed[a].returncode = 0
    /\ Len(completed) <= Len(executed)

FailureHalts ==
    StepFailed =>
        /\ pipeline_pc = "exited"
        /\ exit_code = <<1>>
        /\ failure.key = pipeline_steps[step_index].key
        /\ \A a \in DOMAIN executed : IndexOf(executed[a]) <= step_index
        /\ ~ENABLED (StartStep \/ UnrunStep)

FinishedWithoutFailure == pipeline_pc = "finished" => (~StepFailed /\ failure = NoFailure)

----------------------------------------------------------------------------
(* C30: a step is printed as succeeded only if its command was run in that
   step and returned 0; also the step whose working directory is not set,
   and also when that step is the first selected one. *)
C30_SucceededOnlyIfRun ==
    \A a \in DOMAIN reported : CommandReturned(reported[a], 0)

====
